---- MODULE Spec2Model ----
(***************************************************************************)
(* The engine session shim (MatlabEngine), the tool dispatch handler       *)
(* (call_tool) and the vendor engine API they drive, as a state machine.   *)
(*                                                                         *)
(* The vendor library (matlab.engine) is the environment: start_matlab,    *)
(* connect_matlab, quit and eval are modelled by their possible outcomes,  *)
(* chosen nondeterministically by the action that performs the call.       *)
(***************************************************************************)
EXTENDS Integers, Sequences, FiniteSets, TLC

\* ------------------------------------------------------------------ bounds
MaxProcs == 2       \* engine processes that can exist on the machine at once
MaxTasks == 2       \* requests the server can hold at once

\* ------------------------------------------------------------- basic values
NONE == "<None>"                                  \* Python's None
Procs == 1..MaxProcs
NoHandle == [proc |-> 0, started |-> FALSE]       \* self._engine is None
\* A process: own says this shim instance started it, name is the name it is
\* shared under, quit_failed that a quit() on it raised and left it running.
\* ws is the base workspace of the process: the value of each variable the
\* model follows, UNDEF for one that is not defined.  Assignments to other
\* names (the temporaries v, c, tb, i, info, ws of the commands) are left out.
UNDEF == "<undefined>"
WsNames == {"x", "y", "z", "result"}
EmptyWs == [n \in WsNames |-> UNDEF]
UnbornProc == [status |-> "unborn", own |-> FALSE, name |-> NONE, quit_failed |-> FALSE,
               ws |-> EmptyWs]
DeadProc == [status |-> "dead", own |-> FALSE, name |-> NONE, quit_failed |-> FALSE,
             ws |-> EmptyWs]

\* A MAT file: the variables saved in it, when it exists.
NoFile == [exists |-> FALSE, vars |-> EmptyWs]

Whitespace == {" ", "\t", "\n"}
\* Names under which a session can be shared explicitly.
ShareNames == {"gui", "s1"}
\* Names a caller can pass to connect_to_session / connect_to_shared.
SessionNames == ShareNames \cup {"nonexistent_session_12345"}

VARIABLES
    MATLAB_AVAILABLE,   \* engine.py module flag: the vendor library imported
    engine,             \* MatlabEngine._engine: a handle, or NoHandle
    is_shared,          \* MatlabEngine._is_shared
    session_name,       \* MatlabEngine._session_name
    procs,              \* the engine processes on the machine
    enabled_modes,      \* server.py enabled_modes
    mat_file,           \* the MAT file at MatPath on the disk of the machine
    main_pc,            \* server.py main(): where its execution stands
    requests,           \* the requests the server has accepted and not answered
    last                \* the last call: its operation, its arguments, the state
                        \* it found, its result and the vendor calls it made

vars == <<MATLAB_AVAILABLE, engine, is_shared, session_name, procs,
          enabled_modes, mat_file, main_pc, requests, last>>

\* The shim instance and the machine it runs on, as one value.
Shim == [avail |-> MATLAB_AVAILABLE, engine |-> engine, is_shared |-> is_shared,
         session_name |-> session_name, procs |-> procs, files |-> mat_file]

\* ---------------------------------------------------------- result values
\* A returned dict: keys says which keys are present.
NoRet == [keys |-> {}, output |-> "", error |-> "", success |-> FALSE,
          connected |-> FALSE, is_shared |-> FALSE, session_name |-> "",
          path |-> <<>>, message |-> "", format |-> "", variable |-> "",
          installed |-> FALSE, value |-> "", raw |-> "", sessions |-> {},
          variables |-> {}, count |-> 0, current_session |-> "", version |-> ""]
NoExc == [type |-> NONE, msg |-> ""]

Exc(type, msg) == [type |-> type, msg |-> msg]
\* The outcome of one call: the state it leaves, what it returns or raises,
\* and the calls it made on the vendor API, in order.
Returns(st, ret, log) == [st |-> st, ret |-> ret, exc |-> NoExc, log |-> log]
Raises(st, exc, log) == [st |-> st, ret |-> NoRet, exc |-> exc, log |-> log]
Raised(r) == r.exc.type # NONE

\* class hierarchy of engine.py: the subclasses of MatlabEngineError
IsMatlabEngineError(type) ==
    type \in {"MatlabEngineError", "MatlabNotAvailableError",
              "MatlabExecutionError", "MatlabConnectionError"}

\* ---------------------------------------------------------- vendor engine
Min(S) == CHOOSE x \in S : \A y \in S : x <= y

\* Process slots a new process can take: never used, or dead and no longer
\* referred to by the shim's handle.
FreeProcs(st) ==
    {p \in Procs : \/ st.procs[p].status = "unborn"
                   \/ st.procs[p].status = "dead" /\ st.engine.proc # p}

Alive(st, h) == h # NoHandle /\ st.procs[h.proc].status = "alive"

\* matlab.engine.start_matlab(): a new process and a handle to it, or an error.
StartMatlabOk(st, outcome) == outcome = "ok" /\ FreeProcs(st) # {}
StartMatlabHandle(st) == [proc |-> Min(FreeProcs(st)), started |-> TRUE]
StartMatlabProcs(st) ==
    [st.procs EXCEPT ![Min(FreeProcs(st))] =
        [status |-> "alive", own |-> TRUE, name |-> NONE, quit_failed |-> FALSE,
         ws |-> EmptyWs]]

\* handle.quit(): "terminated" ends the process behind the handle,
\* "disconnected" (a handle obtained by connect_matlab) only drops the
\* connection, "error" raises and leaves the process as it is.
QuitOutcomes(h) == IF h.started THEN {"terminated", "error"}
                   ELSE {"terminated", "disconnected", "error"}
\* the log of a quit(): "raised" follows the call that raised
QuitLog(outcome) == IF outcome = "error" THEN <<"quit", "raised">> ELSE <<"quit">>
QuitProcs(ps, h, outcome) ==
    IF ps[h.proc].status # "alive" THEN ps
    ELSE IF outcome = "terminated" THEN [ps EXCEPT ![h.proc] = DeadProc]
    ELSE IF outcome = "error" THEN [ps EXCEPT ![h.proc].quit_failed = TRUE]
    ELSE ps

\* ------------------------------------------------------------ MatlabEngine
\* (mutant) start() that starts a process whether or not a handle exists
start_AlwaysNew(st, outcome) ==
    IF ~st.avail
    THEN Raises(st, Exc("MatlabNotAvailableError",
                        "MATLAB Engine for Python is not installed."),
                <<"start">>)
    ELSE IF StartMatlabOk(st, outcome)
    THEN Returns([st EXCEPT !.engine = StartMatlabHandle(st),
                            !.procs = StartMatlabProcs(st)],
                 NoRet, <<"start", "start_matlab">>)
    ELSE Raises(st, Exc("MatlabConnectionError", "Failed to start MATLAB: "
                                                  \o "startup failed"),
                <<"start", "start_matlab">>)

\* (mutant) start() without the test of MATLAB_AVAILABLE of line 74: the call
\* of start_matlab fails in the try block
start_NoAvailCheck(st, outcome) ==
    IF st.engine = NoHandle
    THEN IF st.avail /\ StartMatlabOk(st, outcome)
         THEN Returns([st EXCEPT !.engine = StartMatlabHandle(st),
                                 !.procs = StartMatlabProcs(st)],
                      NoRet, <<"start", "start_matlab">>)
         ELSE Raises(st, Exc("MatlabConnectionError", "Failed to start MATLAB: "
                                                       \o "startup failed"),
                     <<"start", "start_matlab">>)
    ELSE Returns(st, NoRet, <<"start">>)

\* start(): engine.py 63-99
start(st, outcome) ==
    IF ~st.avail
    THEN Raises(st, Exc("MatlabNotAvailableError",
                        "MATLAB Engine for Python is not installed."),
                <<"start">>)
    ELSE IF st.engine = NoHandle
    THEN IF StartMatlabOk(st, outcome)
         THEN Returns([st EXCEPT !.engine = StartMatlabHandle(st),
                                 !.procs = StartMatlabProcs(st)],
                      NoRet, <<"start", "start_matlab">>)
         ELSE Raises(st, Exc("MatlabConnectionError", "Failed to start MATLAB: "
                                                       \o "startup failed"),
                     <<"start", "start_matlab">>)
    ELSE Returns(st, NoRet, <<"start">>)

\* (mutant) stop() without the forced cleanup of line 116
stop_NoForcedCleanup(st, outcome) ==
    IF st.engine # NoHandle
    THEN IF outcome # "error"
         THEN Returns([st EXCEPT !.engine = NoHandle,
                                 !.procs = QuitProcs(st.procs, st.engine, outcome)],
                      NoRet, QuitLog(outcome))
         ELSE Raises([st EXCEPT !.procs = QuitProcs(st.procs, st.engine, outcome)],
                     Exc("MatlabEngineError", "Failed to stop MATLAB: " \o "quit failed"),
                     QuitLog(outcome))
    ELSE Returns(st, NoRet, <<>>)

\* stop(): engine.py 101-119
stop(st, outcome) ==
    IF st.engine # NoHandle
    THEN IF outcome # "error"
         THEN Returns([st EXCEPT !.engine = NoHandle,
                                 !.procs = QuitProcs(st.procs, st.engine, outcome)],
                      NoRet, QuitLog(outcome))
         ELSE Raises([st EXCEPT !.engine = NoHandle,
                                !.procs = QuitProcs(st.procs, st.engine, outcome)],
                     Exc("MatlabEngineError", "Failed to stop MATLAB: " \o "quit failed"),
                     QuitLog(outcome))
    ELSE Returns(st, NoRet, <<>>)

\* (mutant) a method that does not start the engine on demand
AutoStart_Missing(st, outcome) == Returns(st, NoRet, <<>>)
\* `if self._engine is None: self.start()`, the first statement of every
\* workspace, figure, data, environment and help method
AutoStart(st, outcome) ==
    IF st.engine = NoHandle THEN start(st, outcome) ELSE Returns(st, NoRet, <<>>)

\* r, then (when r did not raise) the call that gave r2 from r.st
Then(r, r2) == IF Raised(r) THEN r ELSE [r2 EXCEPT !.log = r.log \o r2.log]

\* --- strings -------------------------------------------------------------
\* A code string or a path is a sequence of characters; NoneSeq is None.
NoneSeq == <<NONE>>
RECURSIVE LStrip(_)
LStrip(s) == IF s # <<>> /\ Head(s) \in Whitespace THEN LStrip(Tail(s)) ELSE s
RECURSIVE RStrip(_)
RStrip(s) == IF s # <<>> /\ s[Len(s)] \in Whitespace
             THEN RStrip(SubSeq(s, 1, Len(s) - 1)) ELSE s
\* str.strip()
Strip(s) == RStrip(LStrip(s))
\* the string of a sequence of characters
RECURSIVE Join(_)
Join(s) == IF s = <<>> THEN "" ELSE Head(s) \o Join(Tail(s))
\* `not s` for a string or None
Falsy(s) == s = NoneSeq \/ s = <<>>
FalsyStr(s) == s = NONE \/ s = ""
\* (mutant) the test without the strip(): `not code`
IsBlank_NoStrip(code) == Falsy(code)
\* engine.py 134: `not code or not code.strip()`
IsBlank(code) == Falsy(code) \/ Strip(code) = <<>>

\* --- eval ----------------------------------------------------------------
\* What handle.eval(code, stdout=..., stderr=...) can do.  The first six
\* return, with the text written to the two streams; the others raise.
\* "out_json" writes a JSON document, "out_not_found" a line that reports a
\* toolbox as not found.
EvalReturning == {"out", "out_json", "out_not_found", "silent", "stderr", "out_stderr"}
EvalRaising == {"exec_error", "exec_error_engine", "fault_engine",
                "fault_connection", "fault_other"}
EvalOutcomes == EvalReturning \cup EvalRaising
\* A handle whose process is gone cannot run anything: the call raises a
\* fault of the vendor library.
EvalOutcome(st, outcome) ==
    IF Alive(st, st.engine) \/ outcome \in EvalRaising \ {"exec_error", "exec_error_engine"}
    THEN outcome ELSE "fault_engine"
JsonText == "{\"x\": 1}"
EvalStdout(outcome) ==
    CASE outcome \in {"out", "out_stderr"} -> "ans = 2"
      [] outcome = "out_json" -> JsonText
      [] outcome = "out_not_found" -> "Toolbox not found: stats"
      [] OTHER -> ""
EvalStderr(outcome) == IF outcome \in {"stderr", "out_stderr"} THEN "Warning: w" ELSE ""
\* (mutant) the wording of the message is looked at before the class of the
\* exception
IsExecutionError_AfterWording(outcome) == outcome = "exec_error"
\* isinstance(e, matlab.engine.MatlabExecutionError)
IsExecutionError(outcome) == outcome \in {"exec_error", "exec_error_engine"}
EvalMsg(outcome) ==
    CASE outcome = "exec_error" -> "Undefined function or variable 'y'."
      [] outcome = "exec_error_engine" -> "Error using matlab.engine.shareEngine"
      [] outcome = "fault_engine" -> "MATLAB Engine has been terminated"
      [] outcome = "fault_connection" -> "Connection to MATLAB lost"
      [] OTHER -> "unsupported data type"
\* `"connection" in error_msg.lower() or "engine" in error_msg.lower()`,
\* decided for each message the engine can raise.
HasEngineWording(msg) ==
    msg \in {"Error using matlab.engine.shareEngine",
             "MATLAB Engine has been terminated", "Connection to MATLAB lost"}

\* --- the workspace ------------------------------------------------------------
\* The workspace behind the handle, and the variables defined in it.
Ws(st) == st.procs[st.engine.proc].ws
Defined(ws) == {n \in WsNames : ws[n] # UNDEF}
\* "x = 1; y = 2; z = 3;" (tests/test_engine.py 123), as one token
AssignCode == <<"x = 1; y = 2; z = 3;">>
\* The workspace after the engine ran `code` to its end.  The commands run in
\* the base workspace: the listing command of list_workspace (engine.py
\* 252-263) assigns its variable `result` there.
RunIn(ws, code) ==
    IF code = AssignCode
    THEN [ws EXCEPT !["x"] = "double(1)", !["y"] = "double(2)", !["z"] = "double(3)"]
    ELSE IF code = <<"whos">> THEN [ws EXCEPT !["result"] = "struct"]
    ELSE ws
\* The MAT file of the model: the one file whose content is followed.
MatPath == <<"ws", ".", "mat">>
\* The names after the path in "save('p', 'a', 'b');" and "load('p', 'a');"
Named(code) == {code[i] : i \in 3..Len(code)}
OnMatFile(code, what) == Len(code) >= 2 /\ code[1] = what /\ code[2] = Join(MatPath)
\* save(path) writes every variable of the workspace, save(path, names...) the
\* named ones, to a new file at path.
Saved(ws, code, file) ==
    IF OnMatFile(code, "save")
    THEN [exists |-> TRUE,
          vars |-> [n \in WsNames |->
                      IF Len(code) = 2 \/ n \in Named(code) THEN ws[n] ELSE UNDEF]]
    ELSE file
\* load(path) assigns every variable of the file, load(path, name) the named
\* one, and leaves the other variables of the workspace alone.
Loaded(ws, code, file) ==
    IF OnMatFile(code, "load")
    THEN [n \in WsNames |->
            IF file.vars[n] # UNDEF /\ (Len(code) = 2 \/ n \in Named(code))
            THEN file.vars[n] ELSE ws[n]]
    ELSE ws
\* How the command can end: saving a variable that does not exist, and
\* loading a file that does not exist, are errors of the command.
MatOutcomes(st, code) ==
    IF \/ OnMatFile(code, "save") /\ Named(code) \ Defined(Ws(st)) # {}
       \/ OnMatFile(code, "load") /\ ~st.files.exists
    THEN {"exec_error"} ELSE {"silent", "exec_error"}
\* st after its engine ran `code`
Ran(st, code) ==
    [st EXCEPT !.procs[st.engine.proc].ws = Loaded(RunIn(Ws(st), code), code, st.files),
               !.files = Saved(Ws(st), code, st.files)]
\* the log of an eval(): the call, then how it ended
EvalLog(o) == <<"eval", o>>

ExecRet(output, error) ==
    [NoRet EXCEPT !.keys = {"output", "error"}, !.output = output, !.error = error]

\* execute(): engine.py 121-183.  env.start and env.eval are the outcomes of
\* the vendor calls it may make.
execute(st, code, env) ==
    IF IsBlank(code)
    THEN Returns(st, ExecRet("", "No code provided"), <<>>)
    ELSE LET a == AutoStart(st, env.start)
             o == EvalOutcome(a.st, env.eval)
             msg == EvalMsg(o)
         IN Then(a,
              IF o \in EvalReturning
              THEN Returns(Ran(a.st, code),
                       ExecRet(IF EvalStdout(o) # "" THEN EvalStdout(o)
                               ELSE "Code executed successfully.",
                               IF EvalStderr(o) # "" THEN EvalStderr(o) ELSE NONE),
                       EvalLog(o))
              ELSE IF st.avail /\ IsExecutionError(o)
              THEN Returns(a.st, ExecRet("", msg), EvalLog(o))
              ELSE IF HasEngineWording(msg)
              THEN Raises(a.st, Exc("MatlabEngineError", "Engine error: " \o msg),
                          EvalLog(o))
              ELSE Returns(a.st, ExecRet("", "Unexpected error: " \o msg), EvalLog(o)))

\* result.get("error") is truthy
Truthy(s) == s # NONE /\ s # ""
Failure(error) == [NoRet EXCEPT !.keys = {"success", "error"}, !.error = error]
Success == [NoRet EXCEPT !.keys = {"success"}, !.success = TRUE]

\* --- paths and formats -----------------------------------------------------
\* str(x) inside an f-string
PyStr(s) == IF s = NONE THEN "None" ELSE s
RFind(p, c) == IF \E i \in 1..Len(p) : p[i] = c
               THEN CHOOSE i \in 1..Len(p) : p[i] = c /\ \A j \in (i+1)..Len(p) : p[j] # c
               ELSE 0
\* os.path.splitext(path)[1]: from the last dot of the last component, unless
\* that component has only leading dots
SplitExt(p) ==
    LET sep == RFind(p, "/")
        dot == RFind(p, ".")
    IN IF dot > sep /\ \E i \in (sep+1)..(dot-1) : p[i] # "."
       THEN SubSeq(p, dot, Len(p)) ELSE <<>>
SplitRoot(p) == SubSeq(p, 1, Len(p) - Len(SplitExt(p)))
\* os.path.basename(path)
Basename(p) == SubSeq(p, RFind(p, "/") + 1, Len(p))
RECURSIVE LStripDots(_)
LStripDots(s) == IF s # <<>> /\ Head(s) = "." THEN LStripDots(Tail(s)) ELSE s
\* engine.py 521-524, 565-568: the format, from the extension when not given
FormatOf(path, fmt) == IF fmt = NONE THEN Join(LStripDots(SplitExt(path))) ELSE fmt
\* engine.py 528-529: "imported_" + stem, with "-" and " " replaced by "_"
ImportVarName(path) ==
    LET stem == SplitRoot(Basename(path))
    IN "imported_" \o Join([i \in 1..Len(stem) |->
                              IF stem[i] \in {"-", " "} THEN "_" ELSE stem[i]])

FigureFormats == {"png", "jpg", "jpeg", "svg", "pdf", "fig"}
DataFormats == {"csv", "txt", "xlsx", "json"}

\* A method that builds one command and runs it through execute():
\* the result of execute on the auto-started shim.
RunCommand(a, code, env) == Then(a, execute(a.st, code, env))

\* save_figure(): engine.py 374-423
save_figure(st, fig_num, path, fmt, env) ==
    LET a == AutoStart(st, env.start)
        p == IF path = NoneSeq THEN <<"/tmp/matlab_fig_", ".", PyStr(fmt)>> ELSE path
        e == RunCommand(a, <<IF fmt = "fig" THEN "saveas" ELSE "print">>, env)
    IN IF Raised(a) THEN a
       ELSE IF fmt \notin FigureFormats
       THEN Then(a, Returns(a.st, Failure("Unsupported format: " \o PyStr(fmt)), <<>>))
       ELSE IF Raised(e) THEN e
       ELSE IF Truthy(e.ret.error)
       THEN [e EXCEPT !.ret = [Failure(e.ret.error) EXCEPT
                                  !.keys = {"success", "error", "path"},
                                  !.path = NoneSeq]]
       ELSE [e EXCEPT !.ret = [Success EXCEPT !.keys = {"success", "path", "format"},
                                              !.path = p, !.format = fmt]]

\* The tail shared by close_figures, load_mat_file, save_mat_file,
\* import_data and export_data: failure with execute's error, or `ok`.
Outcome(e, ok) ==
    IF Raised(e) THEN e
    ELSE IF Truthy(e.ret.error) THEN [e EXCEPT !.ret = Failure(e.ret.error)]
    ELSE [e EXCEPT !.ret = ok]

\* close_figures(): engine.py 425-447
close_figures(st, fig_nums, env) ==
    Outcome(RunCommand(AutoStart(st, env.start), <<"close">>, env), Success)

\* load_mat_file(): engine.py 453-476
load_mat_file(st, path, var, env) ==
    Outcome(RunCommand(AutoStart(st, env.start),
                       <<"load", Join(path)>> \o (IF Truthy(var) THEN <<var>> ELSE <<>>),
                       env),
            [Success EXCEPT !.keys = {"success", "message"},
                            !.message = "Loaded from " \o Join(path)])

\* (mutant) save_mat_file that saves the whole workspace whatever the list
save_mat_file_AllVariables(st, path, variables, env) ==
    Outcome(RunCommand(AutoStart(st, env.start), <<"save", Join(path)>>, env),
            [Success EXCEPT !.keys = {"success", "path"}, !.path = path])
\* save_mat_file(): engine.py 478-504.  `variables` is a list of names,
\* NoneSeq for None.
save_mat_file(st, path, variables, env) ==
    Outcome(RunCommand(AutoStart(st, env.start),
                       <<"save", Join(path)>> \o (IF Falsy(variables) THEN <<>> ELSE variables),
                       env),
            [Success EXCEPT !.keys = {"success", "path"}, !.path = path])

\* os.path.splitext / os.path.basename of None
TypeError == Exc("TypeError", "expected str, bytes or os.PathLike object, not NoneType")

\* import_data(): engine.py 506-545
import_data(st, path, fmt, env) ==
    LET a == AutoStart(st, env.start)
        f == FormatOf(path, fmt)
    IN IF Raised(a) THEN a
       ELSE IF path = NoneSeq THEN Then(a, Raises(a.st, TypeError, <<>>))
       ELSE IF f \notin DataFormats
       THEN Then(a, Returns(a.st, Failure("Unsupported format: " \o PyStr(f)), <<>>))
       ELSE Outcome(RunCommand(a, <<IF f = "json" THEN "jsondecode" ELSE "readtable">>,
                               env),
                    [Success EXCEPT !.keys = {"success", "variable", "format"},
                                    !.variable = ImportVarName(path), !.format = f])

\* export_data(): engine.py 547-584
export_data(st, var, path, fmt, env) ==
    LET a == AutoStart(st, env.start)
        f == FormatOf(path, fmt)
    IN IF Raised(a) THEN a
       ELSE IF fmt = NONE /\ path = NoneSeq THEN Then(a, Raises(a.st, TypeError, <<>>))
       ELSE IF f \notin DataFormats
       THEN Then(a, Returns(a.st, Failure("Unsupported format: " \o PyStr(f)), <<>>))
       ELSE Outcome(RunCommand(a, <<IF f = "json" THEN "jsonencode" ELSE "writetable">>,
                               env),
                    [Success EXCEPT !.keys = {"success", "path", "format"},
                                    !.path = path, !.format = f])

\* get_version(), list_toolboxes(): engine.py 590-631
get_version(st, env) == RunCommand(AutoStart(st, env.start), <<"version">>, env)
list_toolboxes(st, env) == RunCommand(AutoStart(st, env.start), <<"ver">>, env)

\* `"not found" not in output.lower()`, decided for each text eval can write
LacksNotFound(output) == output # "Toolbox not found: stats"

\* check_toolbox(): engine.py 633-660
check_toolbox(st, name, env) ==
    LET e == RunCommand(AutoStart(st, env.start), <<"ver(name)">>, env)
    IN IF Raised(e) THEN e
       ELSE [e EXCEPT !.ret = [e.ret EXCEPT !.keys = {"installed", "output", "error"},
                                            !.installed = LacksNotFound(e.ret.output)]]

HelpOps == {"help", "lookfor", "which"}

\* get_help(): engine.py 666-696
get_help(st, name, op, env) ==
    LET a == AutoStart(st, env.start)
        e == RunCommand(a, <<op>>, env)
    IN IF Raised(a) THEN a
       ELSE IF op \notin HelpOps
       THEN Then(a, Returns(a.st, Failure("Unknown help operation: " \o PyStr(op)), <<>>))
       ELSE IF Raised(e) THEN e
       ELSE [e EXCEPT !.ret = [e.ret EXCEPT !.keys = {"success", "output", "error"},
                                            !.success = ~Truthy(e.ret.error)]]

\* --- workspace -----------------------------------------------------------
\* A call on the handle other than eval through execute(): it returns, or
\* the exception of the vendor library propagates to the caller unchanged.
VendorExc(o) ==
    Exc(IF IsExecutionError(o) THEN "matlab.engine.MatlabExecutionError"
        ELSE IF o = "fault_other" THEN "TypeError" ELSE "matlab.engine.EngineError",
        EvalMsg(o))
VendorCall(a, what, ret, env) ==
    LET o == EvalOutcome(a.st, env.eval)
    IN Then(a, IF o \in EvalReturning THEN Returns(a.st, ret, <<what>>)
               ELSE Raises(a.st, VendorExc(o), <<what>>))

Value(v) == [NoRet EXCEPT !.keys = {"<value>"}, !.value = v]

\* The conversions of the vendor library between Python values and MATLAB
\* values, for the values of PyValues: a list and a tuple both become a cell
\* array, and a cell array comes back as a list.
PyValues == {"1", "2.5", "[1, 2, 3]", "[[1, 2], [3]]", "(1, 2, 3)"}
ToMatlab(v) ==
    CASE v = "1" -> "int64(1)"
      [] v = "2.5" -> "double(2.5)"
      [] v \in {"[1, 2, 3]", "(1, 2, 3)"} -> "cell{1, 2, 3}"
      [] v = "[[1, 2], [3]]" -> "cell{cell{1, 2}, cell{3}}"
      [] OTHER -> "char('" \o v \o "')"
FromMatlab(m) ==
    CASE m = "int64(1)" -> "1"
      [] m = "double(2.5)" -> "2.5"
      [] m = "double(1)" -> "1.0"
      [] m = "double(2)" -> "2.0"
      [] m = "double(3)" -> "3.0"
      [] m = "cell{1, 2, 3}" -> "[1, 2, 3]"
      [] m = "cell{cell{1, 2}, cell{3}}" -> "[[1, 2], [3]]"
      [] OTHER -> "<matlab object>"

\* (mutant) get_variable() that answers without reading the workspace
get_variable_NotRead(st, name, env) ==
    VendorCall(AutoStart(st, env.start), "workspace[]", Value("1"), env)
\* get_variable(): engine.py 194-206.  Reading a variable that is not defined
\* raises the execution error of the engine.
get_variable(st, name, env) ==
    LET a == AutoStart(st, env.start)
        o == IF EvalOutcome(a.st, env.eval) \in EvalReturning /\ Ws(a.st)[name] = UNDEF
             THEN "exec_error" ELSE EvalOutcome(a.st, env.eval)
    IN Then(a, IF o \in EvalReturning
               THEN Returns(a.st, Value(FromMatlab(Ws(a.st)[name])), <<"workspace[]">>)
               ELSE Raises(a.st, VendorExc(o), <<"workspace[]">>))
\* (mutant) set_variable() that keeps the value of a variable that exists
set_variable_KeepExisting(st, name, value, env) ==
    LET a == AutoStart(st, env.start)
        o == EvalOutcome(a.st, env.eval)
    IN Then(a, IF o \in EvalReturning
               THEN Returns(IF Ws(a.st)[name] # UNDEF THEN a.st
                            ELSE [a.st EXCEPT !.procs[a.st.engine.proc].ws[name] =
                                                 ToMatlab(value)],
                            NoRet, <<"workspace[]=">>)
               ELSE Raises(a.st, VendorExc(o), <<"workspace[]=">>))
\* set_variable(): engine.py 208-218
set_variable(st, name, value, env) ==
    LET a == AutoStart(st, env.start)
        o == EvalOutcome(a.st, env.eval)
    IN Then(a, IF o \in EvalReturning
               THEN Returns([a.st EXCEPT !.procs[a.st.engine.proc].ws[name] = ToMatlab(value)],
                            NoRet, <<"workspace[]=">>)
               ELSE Raises(a.st, VendorExc(o), <<"workspace[]=">>))
\* call_function(): engine.py 220-235
call_function(st, name, env) ==
    VendorCall(AutoStart(st, env.start), "feval", Value("1"), env)

\* json.loads(text.strip()) succeeds
IsJson(text) == text = JsonText

\* What who() prints (scripts/check_sessions.py 48): nothing for an empty
\* workspace, else a header and the names; split() makes words of all of it.
WhoWords(ws) ==
    IF Defined(ws) = {} THEN {} ELSE {"Your", "variables", "are:"} \cup Defined(ws)

\* (mutant) list_workspace() without the except clause of lines 270-272
list_workspace_NoCatch(st, detailed, env) ==
    LET a == AutoStart(st, env.start)
        e == RunCommand(a, <<"whos">>, env)
    IN IF ~detailed
       THEN VendorCall(a, "who", [NoRet EXCEPT !.keys = {"variables"},
                                               !.variables = WhoWords(Ws(a.st))], env)
       ELSE IF Raised(e) THEN e
       ELSE IF IsJson(e.ret.output)
       THEN [e EXCEPT !.ret = [NoRet EXCEPT !.keys = {"<json>"}, !.raw = e.ret.output,
                                            !.variables = Defined(Ws(a.st))]]
       ELSE [e EXCEPT !.ret = NoRet,
                      !.exc = Exc("JSONDecodeError", "Expecting value")]

\* list_workspace(): engine.py 237-279.  The JSON of the detailed listing has
\* one key for each variable defined when the command started.
list_workspace(st, detailed, env) ==
    LET a == AutoStart(st, env.start)
        e == RunCommand(a, <<"whos">>, env)
    IN IF ~detailed
       THEN VendorCall(a, "who", [NoRet EXCEPT !.keys = {"variables"},
                                               !.variables = WhoWords(Ws(a.st))], env)
       ELSE IF Raised(e) THEN e
       ELSE IF IsJson(e.ret.output)
       THEN [e EXCEPT !.ret = [NoRet EXCEPT !.keys = {"<json>"}, !.raw = e.ret.output,
                                            !.variables = Defined(Ws(a.st))]]
       ELSE [e EXCEPT !.ret = [NoRet EXCEPT !.keys = {"error", "raw"},
                                            !.error = "Failed to parse workspace info",
                                            !.raw = e.ret.output]]

\* clear_workspace(): engine.py 281-295, for no name or one name
clear_workspace(st, var, env) ==
    LET a == AutoStart(st, env.start)
        o == EvalOutcome(a.st, env.eval)
    IN Then(a, IF o \in EvalReturning
               THEN Returns([a.st EXCEPT !.procs[a.st.engine.proc].ws =
                                 IF var = NONE THEN EmptyWs ELSE [@ EXCEPT ![var] = UNDEF]],
                            NoRet, <<"eval">>)
               ELSE Raises(a.st, VendorExc(o), <<"eval">>))

\* the workspace property: engine.py 297-307
workspace(st, env) ==
    Then(AutoStart(st, env.start), Returns(AutoStart(st, env.start).st, Value("workspace"), <<>>))

\* --- sessions ------------------------------------------------------------
\* The name MATLAB assigns to a session shared without a name.
DefaultName(p) == "MATLAB_" \o ToString(p)
\* The live processes shared under `name`: names are unique among them.
SharedAs(st, name) ==
    {p \in Procs : st.procs[p].status = "alive" /\ st.procs[p].name = name}
LiveShared(st) ==
    {p \in Procs : st.procs[p].status = "alive" /\ st.procs[p].name # NONE}
\* matlab.engine.shareEngine succeeds on a live session that is not shared
\* yet, under a name no other session uses.
ShareEngineOk(st, n, outcome) ==
    /\ EvalOutcome(st, outcome) \in EvalReturning
    /\ st.procs[st.engine.proc].name = NONE
    /\ SharedAs(st, n) = {}

\* make_shared(): engine.py 309-333
make_shared(st, name, env) ==
    LET a == AutoStart(st, env.start)
        n == IF FalsyStr(name) THEN DefaultName(a.st.engine.proc) ELSE name
        o == IF EvalOutcome(a.st, env.eval) \in EvalRaising
             THEN EvalOutcome(a.st, env.eval) ELSE "exec_error_engine"
    IN Then(a, IF ShareEngineOk(a.st, n, env.eval)
               THEN Returns([a.st EXCEPT !.procs[a.st.engine.proc].name = n],
                            Value(n),
                            IF FalsyStr(name) THEN <<"eval", "eval">> ELSE <<"eval">>)
               ELSE Raises(a.st, VendorExc(o), <<"eval">>))

\* matlab.engine.connect_matlab(name): a handle to the live session shared
\* under that name, or an error.
ConnectOk(st, name, outcome) == outcome = "ok" /\ SharedAs(st, name) # {}
ConnectHandle(st, name) == [proc |-> Min(SharedAs(st, name)), started |-> FALSE]
ConnectMsg == "Unable to connect to MATLAB session"

\* connect_to_shared(name), a static factory: engine.py 348-368.  Its result
\* is the new shim instance, in st.
connect_to_shared(st, name, env) ==
    IF ~st.avail
    THEN Raises(st, Exc("ImportError", "MATLAB Engine for Python is not installed"), <<>>)
    ELSE IF ConnectOk(st, name, env.connect)
    THEN Returns([st EXCEPT !.engine = ConnectHandle(st, name),
                            !.is_shared = FALSE, !.session_name = NONE],
                 NoRet, <<"connect_matlab">>)
    ELSE Raises(st, Exc("matlab.engine.EngineError", ConnectMsg), <<"connect_matlab">>)

\* list_sessions(): engine.py 702-725
list_sessions(st, env) ==
    IF ~st.avail
    THEN Returns(st, Failure("MATLAB Engine for Python is not installed"), <<>>)
    ELSE IF env.connect # "ok"
    THEN Returns(st, Failure(ConnectMsg), <<"find_matlab">>)
    ELSE Returns(st, [Success EXCEPT !.keys = {"success", "sessions", "count"},
                         !.sessions = {st.procs[p].name : p \in LiveShared(st)},
                         !.count = Cardinality(LiveShared(st))],
                 <<"find_matlab">>)

\* (mutant) connect_to_session() without the assignment of line 762
connect_to_session_FlagNotSet(st, name, env) ==
    LET old_engine == st.engine
        quits == old_engine # NoHandle /\ ~st.is_shared
    IN IF ~st.avail
       THEN Returns(st, Failure("MATLAB Engine for Python is not installed"), <<>>)
       ELSE IF ConnectOk(st, name, env.connect)
       THEN Returns([st EXCEPT !.engine = ConnectHandle(st, name),
                               !.session_name = name,
                               !.procs = IF quits
                                         THEN QuitProcs(st.procs, old_engine, env.quit)
                                         ELSE st.procs],
                    [Success EXCEPT !.keys = {"success", "session_name", "message"},
                                    !.session_name = name,
                                    !.message = "Successfully connected to '" \o name \o "'"],
                    IF quits THEN <<"connect_matlab">> \o QuitLog(env.quit)
                    ELSE <<"connect_matlab">>)
       ELSE Returns(st, [Failure("Failed to connect to '" \o name \o "': " \o ConnectMsg)
                            EXCEPT !.keys = {"success", "error", "current_session"},
                                   !.current_session = st.session_name],
                    <<"connect_matlab">>)

\* (mutant) connect_to_session() that stops the engine it holds before it
\* tries to connect, and so cannot roll back
connect_to_session_StopFirst(st, name, env) ==
    LET dropped == [st EXCEPT !.engine = NoHandle,
                              !.procs = IF st.engine # NoHandle /\ ~st.is_shared
                                        THEN QuitProcs(st.procs, st.engine, env.quit)
                                        ELSE st.procs]
    IN IF ~st.avail
       THEN Returns(st, Failure("MATLAB Engine for Python is not installed"), <<>>)
       ELSE IF ConnectOk(dropped, name, env.connect)
       THEN Returns([dropped EXCEPT !.engine = ConnectHandle(dropped, name),
                                    !.is_shared = TRUE, !.session_name = name],
                    [Success EXCEPT !.keys = {"success", "session_name", "message"},
                                    !.session_name = name,
                                    !.message = "Successfully connected to '" \o name \o "'"],
                    <<"quit", "connect_matlab">>)
       ELSE Returns(dropped,
                    [Failure("Failed to connect to '" \o name \o "': " \o ConnectMsg)
                        EXCEPT !.keys = {"success", "error", "current_session"},
                               !.current_session = st.session_name],
                    <<"quit", "connect_matlab">>)

\* connect_to_session(): engine.py 727-779
connect_to_session(st, name, env) ==
    LET old_engine == st.engine
        old_is_shared == st.is_shared
        quits == old_engine # NoHandle /\ ~old_is_shared
    IN IF ~st.avail
       THEN Returns(st, Failure("MATLAB Engine for Python is not installed"), <<>>)
       ELSE IF ConnectOk(st, name, env.connect)
       THEN Returns([st EXCEPT !.engine = ConnectHandle(st, name),
                               !.is_shared = TRUE,
                               !.session_name = name,
                               !.procs = IF quits
                                         THEN QuitProcs(st.procs, old_engine, env.quit)
                                         ELSE st.procs],
                    [Success EXCEPT !.keys = {"success", "session_name", "message"},
                                    !.session_name = name,
                                    !.message = "Successfully connected to '" \o name \o "'"],
                    IF quits THEN <<"connect_matlab">> \o QuitLog(env.quit)
                    ELSE <<"connect_matlab">>)
       ELSE Returns(st, [Failure("Failed to connect to '" \o name \o "': " \o ConnectMsg)
                            EXCEPT !.keys = {"success", "error", "current_session"},
                                   !.current_session = st.session_name],
                    <<"connect_matlab">>)

\* `a or b` for strings
Or(a, b) == IF Truthy(a) THEN a ELSE b

\* The body of get_current_session() after the test of the handle: the
\* engineName query (its failure gives no name), then get_version().
SessionInfo(st, env) ==
    LET o == EvalOutcome(st, env.eval)
        engine_name == IF o \in EvalReturning THEN st.procs[st.engine.proc].name ELSE NONE
        v == get_version(st, [env EXCEPT !.eval = env.eval2])
        version_info == IF Raised(v) THEN "Unknown" ELSE v.ret.output
    IN Returns(v.st, [Success EXCEPT
                        !.keys = {"success", "connected", "is_shared",
                                  "session_name", "version"},
                        !.connected = TRUE,
                        !.is_shared = v.st.is_shared,
                        !.session_name = Or(engine_name, Or(v.st.session_name, "unnamed")),
                        !.version = IF version_info # "" THEN version_info ELSE "Unknown"],
               <<"eval">> \o v.log)

\* (mutant) get_current_session() without the test of the handle of line 788
get_current_session_NoHandleTest(st, env) == SessionInfo(st, env)

\* get_current_session(): engine.py 781-822.  env.eval is the outcome of the
\* engineName query, env.eval2 that of the version command.
get_current_session(st, env) ==
    IF st.engine = NoHandle
    THEN Returns(st, [Success EXCEPT !.keys = {"success", "connected", "message"},
                                     !.message = "No active MATLAB session"],
                 <<>>)
    ELSE SessionInfo(st, env)

\* ---------------------------------------------------------------- call_tool
\* The arguments of a tool call: ABSENT marks a key the mapping lacks, NONE a
\* key given as null.
ABSENT == "<absent>"
AbsentSeq == <<ABSENT>>
NoArgs == [code |-> AbsentSeq, op |-> ABSENT, var |-> ABSENT, value |-> ABSENT,
           fmt |-> ABSENT, path |-> AbsentSeq, name |-> ABSENT,
           session_name |-> ABSENT, mode |-> ABSENT, query |-> ABSENT]
\* arguments.get(key) and arguments.get(key, default)
Get(v) == IF v = ABSENT THEN NONE ELSE v
GetSeq(v) == IF v = AbsentSeq THEN NoneSeq ELSE v
GetOr(v, default) == IF v = ABSENT THEN default ELSE v

\* [TextContent(type="text", text=...)]: a text, or the JSON dump of a dict
Text(t) == [kind |-> "text", text |-> t, json |-> NoRet]
Json(ret) == [kind |-> "json", text |-> "", json |-> ret]
NoPayload == [kind |-> NONE, text |-> "", json |-> NoRet]

\* What the handler did: r is the outcome of the shim method it called (ret
\* what that method returned), calls the shim methods it called, add the
\* mode it enabled.
Reply(r, payload, calls) ==
    [st |-> r.st, payload |-> payload, exc |-> NoExc, log |-> r.log,
     calls |-> calls, add |-> NONE, ret |-> r.ret]
\* the handler returned before it called the shim
Reject(st, payload) == Reply(Returns(st, NoRet, <<>>), payload, <<>>)
\* an exception of the shim method, or of the handler itself after it, that
\* no except clause of the handler catches
Propagate(r, exc, calls) ==
    [st |-> r.st, payload |-> NoPayload, exc |-> exc, log |-> r.log,
     calls |-> calls, add |-> NONE, ret |-> r.ret]
\* result[key] on a dict without the key
KeyError(key) == Exc("KeyError", key)
\* The handler called method and answers with payload(r.ret) when the method
\* returned; what the method raises propagates.
Forward(r, method, payload) ==
    IF Raised(r) THEN Propagate(r, r.exc, <<method>>) ELSE Reply(r, payload, <<method>>)
\* The same inside `try: ... except Exception as e:` answering with caught.
Guarded(r, method, payload, caught) ==
    Reply(r, IF Raised(r) THEN Text(caught \o r.exc.msg) ELSE payload, <<method>>)
\* The answers of the figure and data_io branches: `ok` when result["success"],
\* else the error after `err`
OnSuccess(r, method, ok, err) ==
    Forward(r, method,
            IF r.ret.success THEN Text(ok)
            ELSE Text(err \o (IF "error" \in r.ret.keys THEN PyStr(r.ret.error)
                              ELSE "Unknown error")))
\* The answers of the env and get_help branches: result["output"] when it is
\* truthy, else the error after `err`; a result without "output" is a KeyError
OnOutput(r, method, err) ==
    IF ~Raised(r) /\ "output" \notin r.ret.keys
    THEN Propagate(r, KeyError("output"), <<method>>)
    ELSE Forward(r, method,
                 IF r.ret.output # "" THEN Text(r.ret.output)
                 ELSE Text(err \o (IF "error" \in r.ret.keys THEN PyStr(r.ret.error)
                                   ELSE "Unknown error")))

\* tools.py 224-236
tool_execute_matlab(st, args, env) ==
    LET code == GetSeq(args.code)
        r == execute(st, code, env)
    IN IF Falsy(code) THEN Reject(st, Text("Error: No code provided"))
       ELSE Forward(r, "execute",
                    IF r.ret.error # NONE /\ r.ret.error # ""
                    THEN Text("Error executing MATLAB code:\n\n" \o r.ret.error)
                    ELSE Text("MATLAB Output:\n\n" \o r.ret.output))

\* tools.py 241-288
tool_workspace(st, args, env) ==
    LET op == Get(args.op)
        var == Get(args.var)
        value == Get(args.value)
    IN CASE op = "list" ->
              LET r == list_workspace(st, TRUE, env)
              IN Forward(r, "list_workspace", Json(r.ret))
         [] op = "get" ->
              IF FalsyStr(var)
              THEN Reject(st, Text("Error: Variable name required for 'get' operation"))
              ELSE LET r == get_variable(st, var, env)
                   IN Guarded(r, "get_variable",
                              Text("Variable '" \o var \o "': " \o r.ret.value),
                              "Error getting variable '" \o var \o "': ")
         [] op = "set" ->
              IF FalsyStr(var)
              THEN Reject(st, Text("Error: Variable name required for 'set' operation"))
              ELSE IF value = NONE
              THEN Reject(st, Text("Error: Value required for 'set' operation"))
              ELSE Guarded(set_variable(st, var, value, env), "set_variable",
                           Text("Successfully set variable '" \o var \o "'"),
                           "Error setting variable '" \o var \o "': ")
         [] op = "clear" ->
              Guarded(clear_workspace(st, IF FalsyStr(var) THEN NONE ELSE var, env),
                      "clear_workspace",
                      IF FalsyStr(var) THEN Text("Cleared all workspace variables")
                      ELSE Text("Cleared variable '" \o var \o "'"),
                      "Error clearing workspace: ")
         [] OTHER -> Reject(st, Text("Error: Unknown operation '" \o PyStr(op) \o "'"))

\* tools.py 293-328
tool_figure(st, args, env) ==
    LET op == Get(args.op)
        path == GetSeq(args.path)
        r == save_figure(st, NONE, path, GetOr(args.fmt, "png"), env)
    IN CASE op \in {"save", "export"} ->
              OnSuccess(r, "save_figure", "Figure saved to " \o Join(r.ret.path),
                        "Error saving figure: ")
         [] op = "close" ->
              OnSuccess(close_figures(st, NONE, env), "close_figures",
                        "Closed all figures", "Error closing figures: ")
         [] OTHER -> Reject(st, Text("Error: Unknown operation '" \o PyStr(op) \o "'"))

\* tools.py 333-379
tool_data_io(st, args, env) ==
    LET op == Get(args.op)
        path == GetSeq(args.path)
        var == Get(args.var)
        fmt == Get(args.fmt)
    IN CASE op = "import" ->
              OnSuccess(import_data(st, path, fmt, env), "import_data",
                        "Data imported from " \o Join(path), "Error importing data: ")
         [] op = "export" ->
              IF FalsyStr(var)
              THEN Reject(st, Text("Error: Variable name required for 'export' operation"))
              ELSE OnSuccess(export_data(st, var, path, fmt, env), "export_data",
                             "Variable '" \o var \o "' exported to " \o Join(path),
                             "Error exporting data: ")
         [] op = "load_mat" ->
              OnSuccess(load_mat_file(st, path, var, env), "load_mat_file",
                        "MAT file loaded from " \o Join(path), "Error loading MAT file: ")
         [] op = "save_mat" ->
              OnSuccess(save_mat_file(st, path, NoneSeq, env), "save_mat_file",
                        "Workspace saved to " \o Join(path), "Error saving MAT file: ")
         [] OTHER -> Reject(st, Text("Error: Unknown operation '" \o PyStr(op) \o "'"))

\* tools.py 384-413
tool_env(st, args, env) ==
    LET op == Get(args.op)
        name == Get(args.name)
    IN CASE op = "version" ->
              OnOutput(get_version(st, env), "get_version", "Error getting version: ")
         [] op = "list_toolboxes" ->
              OnOutput(list_toolboxes(st, env), "list_toolboxes",
                       "Error listing toolboxes: ")
         [] op = "check_toolbox" ->
              IF FalsyStr(name)
              THEN Reject(st, Text("Error: Toolbox name required for 'check_toolbox' operation"))
              ELSE OnOutput(check_toolbox(st, name, env), "check_toolbox",
                            "Error checking toolbox: ")
         [] OTHER -> Reject(st, Text("Error: Unknown operation '" \o PyStr(op) \o "'"))

\* tools.py 418-430
tool_get_help(st, args, env) ==
    LET topic_name == Get(args.name)
        op == GetOr(args.op, "help")
    IN IF FalsyStr(topic_name) THEN Reject(st, Text("Error: Name required for 'get_help'"))
       ELSE OnOutput(get_help(st, topic_name, op, env), "get_help", "Error getting help: ")

\* tools.py 439-451: the mode of the first keyword the query contains, for
\* each query of Queries
RoutedMode(query) ==
    CASE query = "plot the variable" -> "plotting"
      [] query = "save my workspace" -> "data_io"
      [] query = "which toolbox" -> "toolboxes"
      [] OTHER -> "essentials"
Route(mode) == [NoRet EXCEPT !.keys = {"mode", "confidence", "reason"}, !.value = mode]

\* list_tools(): tools.py 13-213.  The list is built without reading
\* enabled_modes.
list_tools(modes) ==
    {"execute_matlab", "workspace", "figure", "data_io", "env", "get_help",
     "route_intent", "select_mode", "session"}

\* (mutant) route_intent that enables the mode it routes to
tool_route_intent_Enables(st, args) ==
    IF args.query = NONE
    THEN Propagate(Returns(st, NoRet, <<>>),
                   Exc("AttributeError", "'NoneType' object has no attribute 'lower'"),
                   <<>>)
    ELSE [Reject(st, Json(Route(RoutedMode(GetOr(args.query, "")))))
             EXCEPT !.add = RoutedMode(GetOr(args.query, ""))]
\* tools.py 435-466; None.lower() is an AttributeError
tool_route_intent(st, args) ==
    IF args.query = NONE
    THEN Propagate(Returns(st, NoRet, <<>>),
                   Exc("AttributeError", "'NoneType' object has no attribute 'lower'"),
                   <<>>)
    ELSE Reject(st, Json(Route(RoutedMode(GetOr(args.query, "")))))

\* tools.py 471-477
tool_select_mode(st, args) ==
    LET mode == Get(args.mode)
    IN IF ~FalsyStr(mode)
       THEN [Reject(st, Text("Mode '" \o mode \o "' enabled for this session"))
                EXCEPT !.add = mode]
       ELSE Reject(st, Text("Error: Mode name required"))

\* tools.py 482-508
tool_session(st, args, env) ==
    LET op == Get(args.op)
        sname == Get(args.session_name)
    IN CASE op = "list" ->
              LET r == list_sessions(st, env) IN Forward(r, "list_sessions", Json(r.ret))
         [] op = "connect" ->
              IF FalsyStr(sname)
              THEN Reject(st, Json(Failure("session_name is required for connect operation")))
              ELSE LET r == connect_to_session(st, sname, env)
                   IN Forward(r, "connect_to_session", Json(r.ret))
         [] op = "current" ->
              LET r == get_current_session(st, env)
              IN Forward(r, "get_current_session", Json(r.ret))
         [] OTHER -> Reject(st, Json(Failure("Unknown session operation: " \o PyStr(op))))

\* call_tool(): tools.py 215-514
call_tool(st, name, args, env) ==
    CASE name = "execute_matlab" -> tool_execute_matlab(st, args, env)
      [] name = "workspace" -> tool_workspace(st, args, env)
      [] name = "figure" -> tool_figure(st, args, env)
      [] name = "data_io" -> tool_data_io(st, args, env)
      [] name = "env" -> tool_env(st, args, env)
      [] name = "get_help" -> tool_get_help(st, args, env)
      [] name = "route_intent" -> tool_route_intent(st, args)
      [] name = "select_mode" -> tool_select_mode(st, args)
      [] name = "session" -> tool_session(st, args, env)
      [] OTHER -> Reject(st, Text("Error: Unknown tool '" \o name \o "'"))

\* -------------------------------------------------------------- resources
DocUris == {"docs://readme", "docs://guide", "docs://limitations"}
\* `result.get("output") or result.get("error") or ""`
OutputOrError(ret) == Or(ret.output, Or(ret.error, ""))
\* json.dumps(json.loads(JsonText), indent=2)
JsonDump == "{\n  \"x\": 1\n}"
\* resources.py 126-133, 152-157: the output re-dumped when it is JSON, the
\* output itself when json.loads raises JSONDecodeError
JsonOrRaw(output) == IF IsJson(output) THEN JsonDump ELSE output
\* read_resource(uri): resources.py 43-172.  The documents are read from
\* files; the toolbox list and the session information run a command through
\* execute() and answer with its output, re-dumped when it is JSON.
read_resource(st, uri, env) ==
    CASE uri \in DocUris -> Reject(st, Text("<document>"))
      [] uri = "matlab://env/version" ->
            LET r == get_version(st, env)
            IN Forward(r, "get_version", Text(OutputOrError(r.ret)))
      [] uri = "matlab://env/toolboxes" ->
            LET r == execute(st, <<"ver_json">>, env)
            IN Forward(r, "execute", Text(JsonOrRaw(r.ret.output)))
      [] uri = "matlab://session/info" ->
            LET r == execute(st, <<"info_json">>, env)
            IN Forward(r, "execute", Text(JsonOrRaw(r.ret.output)))
      [] uri = "matlab://workspace/snapshot" ->
            LET r == list_workspace(st, TRUE, env)
            IN Forward(r, "list_workspace", Json(r.ret))
      [] OTHER -> Reject(st, Text("Error: Unknown resource '" \o uri \o "'"))

\* ------------------------------------------------------------------ inputs
\* code strings: "", " ", "   \n\t  " (tests/test_engine.py 87-97), "x", " x\n"
Codes == {<<>>, <<" ">>, <<" ", " ", " ", "\n", "\t", " ", " ">>, <<"x">>,
          <<" ", "x", "\n">>}
Paths == {<<"data", ".", "csv">>, <<"out.d", "/", ".", "csv">>,
          <<"my", "-", "plot", ".", "bmp">>}
DataPath == <<"data", ".", "csv">>
Formats == {"png", "fig", "csv", "json", "bmp"}
VarNames == {"x"}
Modes == {"essentials", "plotting"}

\* start_matlab is called only by a shim that has the library and no handle
StartOutcomes == IF MATLAB_AVAILABLE /\ engine = NoHandle THEN {"ok", "fail"} ELSE {"ok"}
ConnectOutcomes == {"ok", "raise"}
DefaultEnv == [start |-> "ok", eval |-> "silent", eval2 |-> "silent",
               quit |-> "terminated", connect |-> "ok"]
\* the outcomes of an auto-start followed by one engine command
Envs(evals) == {[DefaultEnv EXCEPT !.start = s, !.eval = e] :
                   s \in StartOutcomes, e \in evals}
RunEnvs == Envs(EvalOutcomes)
\* for the methods whose result depends on whether the command failed only
CommandEnvs == Envs({"silent", "stderr", "exec_error", "fault_engine"})

\* --- the command line: cli.py ----------------------------------------------
\* MatlabEngine(): a new shim on the machine of st (engine.py 57-61)
FreshShim(st) == [st EXCEPT !.engine = NoHandle, !.is_shared = FALSE, !.session_name = NONE]
\* what a main returns to sys.exit
ExitCode(n) == [NoRet EXCEPT !.keys = {"<exit>"}, !.count = n]
Exit(r, n) == [st |-> r.st, ret |-> ExitCode(n), exc |-> NoExc, log |-> r.log]
\* The files a -f argument can name: a script, an empty script, a file that
\* cannot be read, a path where there is no file.
Scripts == {"script.m", "empty.m", "locked.m", "missing.m"}
Exists(filepath) == filepath # "missing.m"
Readable(filepath) == filepath # "locked.m"
ReadText(filepath) == IF filepath = "script.m" THEN <<"x">> ELSE <<>>

\* execute_command(): cli.py 9-33; r is what engine.execute(code) did
CommandExit(r) == IF Raised(r) THEN r ELSE Exit(r, IF Truthy(r.ret.error) THEN 1 ELSE 0)
execute_command(st, code, env) == CommandExit(execute(st, code, env))

\* execute_file(): cli.py 36-61; r is what execute_command did, its
\* exceptions are caught
FileExit(r) == IF Raised(r) THEN Exit(r, 1) ELSE r
execute_file(st, filepath, env) ==
    IF ~Exists(filepath) \/ ~Readable(filepath) THEN Exit(Returns(st, NoRet, <<>>), 1)
    ELSE FileExit(execute_command(st, ReadText(filepath), env))

\* A line typed at the prompt is a sequence of characters, a word standing for
\* its characters; KeyboardInterrupt is Ctrl-C at the prompt, and the end of
\* the lines is the end of the input (EOFError).
KeyboardInterrupt == <<"^C">>
Lower(code) == [i \in DOMAIN code |-> IF code[i] = "EXIT" THEN "exit" ELSE code[i]]
\* interactive_mode(): cli.py 64-111
RECURSIVE interactive_mode(_, _, _)
\* cli.py 99-104: r is what engine.execute(code) did; the loop goes on
ReadNext(r, lines, env) == Then(r, interactive_mode(r.st, lines, env))
interactive_mode(st, lines, env) ==
    IF lines = <<>> THEN Returns(st, NoRet, <<>>)
    ELSE IF Head(lines) = KeyboardInterrupt THEN interactive_mode(st, Tail(lines), env)
    ELSE IF Lower(Strip(Head(lines))) \in {<<"exit">>, <<"quit">>}
    THEN Returns(st, NoRet, <<>>)
    ELSE IF Lower(Strip(Head(lines))) = <<"help">> \/ Strip(Head(lines)) = <<>>
    THEN interactive_mode(st, Tail(lines), env)
    ELSE ReadNext(execute(st, Strip(Head(lines)), env), Tail(lines), env)

\* cli.py 170-172: i is what interactive_mode did
InteractiveExit(i) == IF Raised(i) THEN i ELSE Exit(i, 0)
\* cli.py 163-172: the body of the with statement
Body(st, args, env) ==
    IF ~Falsy(args.command) THEN execute_command(st, args.command, env)
    ELSE IF args.file # NONE THEN execute_file(st, args.file, env)
    ELSE InteractiveExit(interactive_mode(st, args.input, env))
\* cli.py 174-176: what main returns after the body and __exit__ ended
Leave(enter, body, exit) ==
    IF Raised(body) \/ Raised(exit)
    THEN Exit(Returns(exit.st, NoRet, enter.log \o body.log \o exit.log), 1)
    ELSE [body EXCEPT !.st = exit.st, !.log = enter.log \o body.log \o exit.log]
\* __exit__ is stop() (engine.py 190-192): it runs however the body ended
OnExit(enter, body, env) == Leave(enter, body, stop(body.st, env.quit))
\* cli.py 158-159: __enter__ is start() (engine.py 185-188); when it raises
\* the body and __exit__ do not run
WithEngine(enter, args, env) ==
    IF Raised(enter) THEN Exit(enter, 1)
    ELSE OnExit(enter, Body(enter.st, args, env), env)
\* main(): cli.py 114-178.  args.input is what the user types in interactive
\* mode.
cli_main(st, args, env) ==
    IF Falsy(args.command) /\ args.file = NONE /\ ~args.interactive
    THEN Exit(Returns(st, NoRet, <<>>), 1)
    ELSE WithEngine(start(st, env.start), args, env)

\* ----------------------------------------------------------------- actions
\* The server holds no request.
Tasks == 1..MaxTasks
NoRequest == [state |-> "none", kind |-> NONE, name |-> NONE, args |-> NoArgs]
NoRequests == [t \in Tasks |-> NoRequest]

\* last.pre is the shim as the call found it, last.pre_modes the enabled modes.
NoPre == [avail |-> FALSE, engine |-> NoHandle, is_shared |-> FALSE,
          session_name |-> NONE, procs |-> [p \in Procs |-> UnbornProc],
          files |-> NoFile]

Init ==
    /\ MATLAB_AVAILABLE \in BOOLEAN
    /\ engine = NoHandle
    /\ is_shared = FALSE
    /\ session_name = NONE
    /\ procs = [p \in Procs |-> UnbornProc]
    /\ enabled_modes = {"essentials"}
    /\ mat_file = NoFile
    /\ main_pc = "unstarted"
    /\ requests = NoRequests
    /\ last = [layer |-> "init", op |-> "__init__", args |-> <<>>, ret |-> NoRet,
               exc |-> NoExc, log |-> <<>>, payload |-> NoPayload, calls |-> <<>>,
               pre |-> NoPre, pre_modes |-> {}]

\* The shim and the machine become st.
Becomes(st) ==
    /\ engine' = st.engine
    /\ is_shared' = st.is_shared
    /\ session_name' = st.session_name
    /\ procs' = st.procs
    /\ mat_file' = st.files
    /\ UNCHANGED MATLAB_AVAILABLE
\* A method of the shim was called with `args` and did r.
Called(op, args, r) ==
    /\ Becomes(r.st)
    /\ last' = [layer |-> "shim", op |-> op, args |-> args, ret |-> r.ret,
                exc |-> r.exc, log |-> r.log, payload |-> NoPayload, calls |-> <<op>>,
                pre |-> Shim, pre_modes |-> enabled_modes]
    /\ UNCHANGED enabled_modes
\* The same by a program that uses the shim as a library: no server runs.
Call(op, args, r) == Called(op, args, r) /\ UNCHANGED <<main_pc, requests>>

Start ==
    \E o \in StartOutcomes : Call("start", <<>>, start(Shim, o))

Stop ==
    \E o \in QuitOutcomes(engine) : Call("stop", <<>>, stop(Shim, o))

Execute ==
    \E code \in Codes \cup {NoneSeq} :
        \E env \in IF IsBlank(code) THEN {DefaultEnv} ELSE RunEnvs :
            Call("execute", <<code>>, execute(Shim, code, env))

WorkspaceOp ==
    \E env \in Envs({"out", "out_json", "exec_error", "fault_engine"}), name \in VarNames :
        \/ Call("get_variable", <<name>>, get_variable(Shim, name, env))
        \/ Call("set_variable", <<name, "1">>, set_variable(Shim, name, "1", env))
        \/ Call("call_function", <<"sqrt">>, call_function(Shim, "sqrt", env))
        \/ \E d \in BOOLEAN : Call("list_workspace", <<d>>, list_workspace(Shim, d, env))
        \/ \E v \in {NONE, name} :
              Call("clear_workspace", <<v>>, clear_workspace(Shim, v, env))
        \/ Call("workspace", <<>>, workspace(Shim, env))

FigureOp ==
    \E env \in CommandEnvs :
        \/ \E path \in {NoneSeq, <<"f", ".", "png">>}, fmt \in Formats :
              Call("save_figure", <<path, fmt>>, save_figure(Shim, NONE, path, fmt, env))
        \/ Call("close_figures", <<>>, close_figures(Shim, NONE, env))

DataOp ==
    \E env \in CommandEnvs :
        \/ \E path \in Paths :
              \E fmt \in IF path = DataPath THEN {NONE} \cup Formats ELSE {NONE} :
                 \/ Call("import_data", <<path, fmt>>, import_data(Shim, path, fmt, env))
                 \/ Call("export_data", <<path, fmt>>,
                         export_data(Shim, "x", path, fmt, env))
        \/ Call("load_mat_file", <<DataPath>>, load_mat_file(Shim, DataPath, NONE, env))
        \/ Call("save_mat_file", <<DataPath>>, save_mat_file(Shim, DataPath, NoneSeq, env))

EnvOp ==
    \E env \in Envs({"out", "out_not_found", "stderr", "exec_error", "fault_engine"}) :
        \/ Call("get_version", <<>>, get_version(Shim, env))
        \/ Call("list_toolboxes", <<>>, list_toolboxes(Shim, env))
        \/ Call("check_toolbox", <<"stats">>, check_toolbox(Shim, "stats", env))
        \/ \E op \in HelpOps \cup {"doc", ""} :
              Call("get_help", <<"sin", op>>, get_help(Shim, "sin", op, env))

MakeShared ==
    \E env \in Envs({"silent", "exec_error"}), name \in {NONE, "s1"} :
        Call("make_shared", <<name>>, make_shared(Shim, name, env))

\* The shim under observation is the instance connect_to_shared returns.
ConnectToShared ==
    /\ last.layer = "init"
    /\ \E name \in SessionNames, c \in ConnectOutcomes :
          Call("connect_to_shared", <<name>>,
               connect_to_shared(Shim, name, [DefaultEnv EXCEPT !.connect = c]))

ListSessions ==
    \E c \in ConnectOutcomes :
        Call("list_sessions", <<>>, list_sessions(Shim, [DefaultEnv EXCEPT !.connect = c]))

ConnectToSession ==
    \E name \in SessionNames, c \in ConnectOutcomes, q \in {"terminated", "error"} :
        Call("connect_to_session", <<name>>,
             connect_to_session(Shim, name, [DefaultEnv EXCEPT !.connect = c, !.quit = q]))

GetCurrentSession ==
    \E e \in {"out", "exec_error"}, e2 \in {"out", "exec_error", "fault_engine"} :
        Call("get_current_session", <<>>,
             get_current_session(Shim, [DefaultEnv EXCEPT !.eval = e, !.eval2 = e2]))

\* --- tool calls ------------------------------------------------------------
\* The handler was called with (name, args) and did t.
Handled(layer, name, args, t) ==
    /\ Becomes(t.st)
    /\ enabled_modes' = IF t.add # NONE THEN enabled_modes \cup {t.add} ELSE enabled_modes
    /\ last' = [layer |-> layer, op |-> name, args |-> args, ret |-> t.ret,
                exc |-> t.exc, log |-> t.log, payload |-> t.payload, calls |-> t.calls,
                pre |-> Shim, pre_modes |-> enabled_modes]
\* The same, the requests of the server left aside.
Tool(name, args, t) == Handled("tool", name, args, t) /\ UNCHANGED <<main_pc, requests>>

ToolEnvs == Envs({"out", "stderr", "exec_error", "fault_engine"})
\* The argument mappings of the calls, for each tool name.
ExecuteMatlabArgs ==
    {[NoArgs EXCEPT !.code = code] :
        code \in {AbsentSeq, NoneSeq, <<>>, <<" ">>, <<"x">>}}
WorkspaceArgs ==
    {[NoArgs EXCEPT !.op = op] : op \in {ABSENT, "", "list", "rename"}}
    \cup {[NoArgs EXCEPT !.op = "clear", !.var = var] : var \in {ABSENT, "", "x"}}
    \cup {[NoArgs EXCEPT !.op = op, !.var = var, !.value = value] :
             op \in {"get", "set"}, var \in {ABSENT, "", "x"}, value \in {ABSENT, "1"}}
FigureArgs ==
    {[NoArgs EXCEPT !.op = op, !.fmt = fmt] :
        op \in {ABSENT, "save", "close"}, fmt \in {ABSENT, "bmp"}}
DataIoArgs ==
    {[NoArgs EXCEPT !.op = op, !.path = path, !.var = var] :
        op \in {ABSENT, "import", "export", "load_mat", "save_mat"},
        path \in {AbsentSeq, DataPath}, var \in {ABSENT, "x"}}
EnvArgs ==
    {[NoArgs EXCEPT !.op = op, !.name = name] :
        op \in {ABSENT, "version", "list_toolboxes", "check_toolbox"},
        name \in {ABSENT, "stats"}}
GetHelpArgs ==
    {[NoArgs EXCEPT !.op = op, !.name = name] :
        name \in {ABSENT, "", "sin"}, op \in {ABSENT, "doc"}}
Queries == {ABSENT, NONE, "", "plot the variable", "hello"}
RouteIntentArgs == {[NoArgs EXCEPT !.query = query] : query \in Queries}
SelectModeArgs == {[NoArgs EXCEPT !.mode = mode] : mode \in {ABSENT, ""} \cup Modes}
SessionArgs ==
    {[NoArgs EXCEPT !.op = op] : op \in {ABSENT, "list", "current"}}
    \cup {[NoArgs EXCEPT !.op = "connect", !.session_name = sname] :
             sname \in {ABSENT, "", "gui", "nonexistent_session_12345"}}
ToolNames == {"execute_matlab", "workspace", "figure", "data_io", "env", "get_help",
              "route_intent", "select_mode", "session", "plot"}
ToolArgs(name) ==
    CASE name = "execute_matlab" -> ExecuteMatlabArgs
      [] name = "workspace" -> WorkspaceArgs
      [] name = "figure" -> FigureArgs
      [] name = "data_io" -> DataIoArgs
      [] name = "env" -> EnvArgs
      [] name = "get_help" -> GetHelpArgs
      [] name = "route_intent" -> RouteIntentArgs
      [] name = "select_mode" -> SelectModeArgs
      [] name = "session" -> SessionArgs
      [] OTHER -> {NoArgs}
\* The outcomes of the vendor calls a tool can make.
ToolCallEnvs(name, args) ==
    IF name = "session"
    THEN IF args.op = "current" THEN {DefaultEnv}
         ELSE {[DefaultEnv EXCEPT !.connect = c, !.quit = q] :
                  c \in ConnectOutcomes,
                  q \in IF args.op = "connect" THEN {"terminated", "error"}
                        ELSE {"terminated"}}
    ELSE IF call_tool(Shim, name, args, DefaultEnv).calls = <<>> THEN {DefaultEnv}
    ELSE ToolEnvs

\* call_tool(name, arguments): one request handled by the server.
CallTool ==
    \E name \in ToolNames :
        \E args \in ToolArgs(name) :
            \E env \in ToolCallEnvs(name, args) :
                Tool(name, args, call_tool(Shim, name, args, env))

\* call_tool("session", arguments)
CallSessionTool ==
    \E args \in SessionArgs :
        \E env \in ToolCallEnvs("session", args) :
            Tool("session", args, call_tool(Shim, "session", args, env))

\* --- the workspace and the resources -----------------------------------------
Uris == DocUris \cup {"matlab://env/version", "matlab://env/toolboxes",
                      "matlab://session/info", "matlab://workspace/snapshot",
                      "matlab://workspace/x"}
\* the command prints JSON or another text, or the engine reports an error
WsEnvs == Envs({"out_json", "out", "exec_error"})

\* execute("x = 1; y = 2; z = 3;")
ExecuteAssign ==
    \E env \in WsEnvs : Call("execute", <<AssignCode>>, execute(Shim, AssignCode, env))

SetVariable ==
    \E env \in WsEnvs, name \in VarNames, value \in PyValues :
        Call("set_variable", <<name, value>>, set_variable(Shim, name, value, env))

GetVariable ==
    \E env \in WsEnvs, name \in VarNames :
        Call("get_variable", <<name>>, get_variable(Shim, name, env))

ListWorkspace ==
    \E env \in WsEnvs, detailed \in BOOLEAN :
        Call("list_workspace", <<detailed>>, list_workspace(Shim, detailed, env))

ClearWorkspace ==
    \E env \in WsEnvs, var \in {NONE} \cup VarNames :
        Call("clear_workspace", <<var>>, clear_workspace(Shim, var, env))

\* The lists of names a caller saves: None, one variable, two.
VarLists == {NoneSeq, <<"x">>, <<"x", "y">>}
\* The outcomes of an auto-start followed by the save or load command `code`.
MatEnvs(code) ==
    {env \in Envs({"silent", "exec_error"}) :
        LET a == AutoStart(Shim, env.start)
        IN Raised(a) \/ env.eval \in MatOutcomes(a.st, code)}

SaveMat ==
    \E variables \in VarLists :
        \E env \in MatEnvs(<<"save", Join(MatPath)>> \o
                           (IF Falsy(variables) THEN <<>> ELSE variables)) :
            Call("save_mat_file", <<MatPath, variables>>,
                 save_mat_file(Shim, MatPath, variables, env))

LoadMat ==
    \E var \in {NONE} \cup VarNames :
        \E env \in MatEnvs(<<"load", Join(MatPath)>> \o
                           (IF Truthy(var) THEN <<var>> ELSE <<>>)) :
            Call("load_mat_file", <<MatPath, var>>, load_mat_file(Shim, MatPath, var, env))

\* stop() whose quit() ends the session
StopSession ==
    /\ engine # NoHandle
    /\ Call("stop", <<>>, stop(Shim, "terminated"))

\* read_resource(uri): one request handled by the server.
ReadResource ==
    \E uri \in Uris :
        \E env \in IF read_resource(Shim, uri, DefaultEnv).calls = <<>>
                   THEN {DefaultEnv} ELSE WsEnvs :
            /\ Handled("resource", "read_resource", <<uri>>, read_resource(Shim, uri, env))
            /\ UNCHANGED <<main_pc, requests>>

\* --- the rest of the machine ---------------------------------------------
\* Steps of other programs are no call on the shim: a shim that was not
\* called yet stays so.
Observed(what) ==
    IF last.layer = "init" THEN last
    ELSE [layer |-> "env", op |-> what, args |-> <<>>, ret |-> NoRet,
          exc |-> NoExc, log |-> <<>>, payload |-> NoPayload, calls |-> <<>>,
          pre |-> NoPre, pre_modes |-> {}]

\* A user starts MATLAB and shares the session (matlab.engine.shareEngine).
ExternalShare ==
    /\ FreeProcs(Shim) # {}
    /\ SharedAs(Shim, "gui") = {}
    /\ procs' = [procs EXCEPT ![Min(FreeProcs(Shim))] =
                    [status |-> "alive", own |-> FALSE, name |-> "gui", quit_failed |-> FALSE,
                     ws |-> EmptyWs]]
    /\ last' = Observed("share")
    /\ UNCHANGED <<MATLAB_AVAILABLE, engine, is_shared, session_name, enabled_modes,
                    mat_file, main_pc, requests>>

\* A user closes a MATLAB session the shim did not start.
ExternalExit ==
    /\ \E p \in Procs :
          /\ procs[p].status = "alive" /\ ~procs[p].own
          /\ procs' = [procs EXCEPT ![p] = DeadProc]
    /\ last' = Observed("exit")
    /\ UNCHANGED <<MATLAB_AVAILABLE, engine, is_shared, session_name, enabled_modes,
                    mat_file, main_pc, requests>>

\* Another client of the shared session "gui" (a second shim instance, or the
\* user at the MATLAB prompt) writes or reads a variable there, through its
\* own connection.
ClientCall(op, args, ret, ps) ==
    /\ procs' = ps
    /\ last' = [layer |-> "client", op |-> op, args |-> args, ret |-> ret,
                exc |-> NoExc, log |-> <<>>, payload |-> NoPayload, calls |-> <<>>,
                pre |-> Shim, pre_modes |-> enabled_modes]
    /\ UNCHANGED <<MATLAB_AVAILABLE, engine, is_shared, session_name, enabled_modes,
                    mat_file, main_pc, requests>>

ClientSet ==
    \E p \in SharedAs(Shim, "gui"), name \in VarNames, value \in PyValues :
        ClientCall("set_variable", <<name, value>>, NoRet,
                   [procs EXCEPT ![p].ws[name] = ToMatlab(value)])

ClientGet ==
    \E p \in SharedAs(Shim, "gui"), name \in VarNames :
        /\ procs[p].ws[name] # UNDEF
        /\ ClientCall("get_variable", <<name>>, Value(FromMatlab(procs[p].ws[name])), procs)

\* The life cycle of the shim and its sessions.
\* --- the two programs: cli.py main(), server.py main() -----------------------
\* What the user types in interactive mode, line by line.
Inputs == {<<>>, <<<<"EXIT">>>>, <<<<" ", "x">>>>, <<<<"x">>, <<"quit">>>>,
           <<<<"help">>, <<" ">>, KeyboardInterrupt, <<"x">>>>, <<<<"exit">>, <<"x">>>>}
\* The command lines: -c, -f and -i in every combination; the input is read
\* in interactive mode only.
CliArgs ==
    {a \in [command : {NoneSeq, <<>>, <<" ">>, <<"x">>}, file : {NONE} \cup Scripts,
            interactive : BOOLEAN, input : Inputs] :
        a.input # <<>> => (a.interactive /\ Falsy(a.command) /\ a.file = NONE)}
\* The outcomes of the vendor calls a run makes: of the start, of the
\* commands when it runs one, of the quit when it comes to it.
CliEnvs(args) ==
    {env \in {[DefaultEnv EXCEPT !.start = s, !.eval = e, !.quit = q] :
                 s \in StartOutcomes, e \in {"silent", "stderr", "exec_error", "fault_engine"},
                 q \in {"terminated", "error"}} :
        LET log == cli_main(FreshShim(Shim), args, [DefaultEnv EXCEPT !.start = env.start]).log
        IN /\ env.eval # "silent" => \E i \in DOMAIN log : log[i] = "eval"
           /\ env.quit # "terminated" => \E i \in DOMAIN log : log[i] = "quit"}
\* the processes that run on the machine
Running(ps) == {p \in Procs : ps[p].status = "alive"}

\* One run of the command line program, from its start to its exit, while no
\* server runs: it makes its own shim.  A run that follows a run which left
\* running the processes it found would repeat that run, and is left out.
CliMain ==
    /\ main_pc = "unstarted"
    /\ last.layer = "cli" => Running(procs) # Running(last.pre.procs)
    /\ \E args \in CliArgs :
        \E env \in CliEnvs(args) :
          LET r == cli_main(FreshShim(Shim), args, env)
          IN /\ Becomes(r.st)
             /\ last' = [layer |-> "cli", op |-> "main", args |-> args, ret |-> r.ret,
                         exc |-> r.exc, log |-> r.log, payload |-> NoPayload,
                         calls |-> <<>>, pre |-> Shim, pre_modes |-> enabled_modes]
    /\ UNCHANGED <<enabled_modes, main_pc, requests>>

\* server.py 27-29: main() starts the engine; a start that raises leaves the
\* try block for the finally clause.
MainStart ==
    /\ main_pc = "unstarted"
    /\ \E o \in StartOutcomes :
          LET r == start(Shim, o)
          IN /\ Called("start", <<>>, r)
             /\ main_pc' = IF Raised(r) THEN "finally_exc" ELSE "serving"
    /\ UNCHANGED requests

\* The requests of a client: tool calls and resource reads.
Requests ==
    {[NoRequest EXCEPT !.state = "pending", !.kind = "tool", !.name = "session",
                       !.args = [NoArgs EXCEPT !.op = "connect", !.session_name = "gui"]],
     [NoRequest EXCEPT !.state = "pending", !.kind = "tool", !.name = "workspace",
                       !.args = [NoArgs EXCEPT !.op = "list"]],
     [NoRequest EXCEPT !.state = "pending", !.kind = "resource", !.name = "read_resource",
                       !.args = <<"matlab://workspace/snapshot">>]}
\* app.run (server.py 33) receives a request and makes a task of it.
Receive ==
    /\ main_pc = "serving"
    /\ \E t \in Tasks, q \in Requests :
          /\ requests[t].state = "none"
          /\ requests' = [requests EXCEPT ![t] = q]
    /\ UNCHANGED <<MATLAB_AVAILABLE, engine, is_shared, session_name, procs,
                   enabled_modes, mat_file, main_pc, last>>

\* While the server runs, a user shares a MATLAB session as "gui".
UserShares == main_pc = "serving" /\ ExternalShare

\* (mutant) a workspace handler that awaits its shim call
AwaitPoints_InWorkspace(q) == IF q.name = "workspace" THEN {"list_workspace"} ELSE {}
\* The await expressions in the handler of request q: call_tool (tools.py
\* 215-514) and read_resource (resources.py 43-172) are coroutines whose bodies
\* hold none.
AwaitPoints(q) == {}
\* What the handler of request q does on st.
RunHandler(st, q, env) ==
    IF q.kind = "tool" THEN call_tool(st, q.name, q.args, env)
    ELSE read_resource(st, q.args[1], env)
\* The event loop runs one task until the task gives the control back: at an
\* await, where it is suspended, or at its return, where the request is answered.
RunTask ==
    /\ main_pc = "serving"
    /\ \E t \in Tasks :
          /\ requests[t].state \in {"pending", "suspended"}
          /\ IF requests[t].state = "pending" /\ AwaitPoints(requests[t]) # {}
             THEN /\ requests' = [requests EXCEPT ![t].state = "suspended"]
                  /\ UNCHANGED <<MATLAB_AVAILABLE, engine, is_shared, session_name, procs,
                                 enabled_modes, mat_file, last>>
             ELSE /\ \E env \in {[DefaultEnv EXCEPT !.eval = e, !.connect = c] :
                                    e \in {"out_json", "exec_error"}, c \in ConnectOutcomes} :
                        Handled(requests[t].kind, requests[t].name, requests[t].args,
                                RunHandler(Shim, requests[t], env))
                  /\ requests' = [requests EXCEPT ![t] = NoRequest]
    /\ UNCHANGED main_pc

\* server.py 32-35: the serving loop ends, at the end of the input or with an
\* exception, and the tasks it had are cancelled.
LoopEnds ==
    /\ main_pc = "serving"
    /\ main_pc' \in {"finally", "finally_exc"}
    /\ requests' = NoRequests
    /\ UNCHANGED <<MATLAB_AVAILABLE, engine, is_shared, session_name, procs,
                   enabled_modes, mat_file, last>>

\* (mutant) a main that stops the engine after a loop that ended normally only
MainFinally_NotOnException ==
    /\ main_pc \in {"finally", "finally_exc"}
    /\ IF main_pc = "finally"
       THEN \E o \in QuitOutcomes(engine) :
               LET r == stop(Shim, o)
               IN /\ Called("stop", <<>>, r)
                  /\ main_pc' = IF Raised(r) THEN "raised" ELSE "returned"
       ELSE /\ main_pc' = "raised"
            /\ UNCHANGED <<MATLAB_AVAILABLE, engine, is_shared, session_name, procs,
                           enabled_modes, mat_file, last>>
    /\ UNCHANGED requests
\* server.py 36-38: the finally clause stops the engine, then main returns, or
\* raises what the try block or stop() raised.
MainFinally ==
    /\ main_pc \in {"finally", "finally_exc"}
    /\ \E o \in QuitOutcomes(engine) :
          LET r == stop(Shim, o)
          IN /\ Called("stop", <<>>, r)
             /\ main_pc' = IF Raised(r) \/ main_pc = "finally_exc" THEN "raised"
                           ELSE "returned"
    /\ UNCHANGED requests

Next ==
    \/ Start
    \/ Stop
    \/ MakeShared
    \/ ConnectToShared
    \/ ListSessions
    \/ ConnectToSession
    \/ GetCurrentSession
    \/ ExternalShare
    \/ ExternalExit

Spec == Init /\ [][Next]_vars

\* The operations that run commands on the engine, on a shim that is started
\* and stopped.
NextOps ==
    \/ Start
    \/ Stop
    \/ Execute
    \/ WorkspaceOp
    \/ FigureOp
    \/ DataOp
    \/ EnvOp

SpecOps == Init /\ [][NextOps]_vars

\* The server: main() starts the engine (server.py 29), then tool calls are
\* handled one after the other, on a machine where no other program shares a
\* session.
NextTools ==
    \/ Start
    \/ CallTool
    \/ ReadResource

SpecTools == Init /\ [][NextTools]_vars

\* The session tool of the server, with the sessions that users share and
\* close.
NextToolSessions ==
    \/ Start
    \/ CallSessionTool
    \/ ExternalShare
    \/ ExternalExit

SpecToolSessions == Init /\ [][NextToolSessions]_vars

\* The workspace of a session: assignments, listings and the resources read
\* from it.
NextWs ==
    \/ Start
    \/ StopSession
    \/ ExecuteAssign
    \/ SetVariable
    \/ GetVariable
    \/ ListWorkspace
    \/ ClearWorkspace
    \/ ReadResource

SpecWs == Init /\ [][NextWs]_vars

\* A session that a user shares, with two writers: the shim connected to it
\* and another client.
\* A program that saves its workspace to a MAT file and loads it back.
NextMat ==
    \/ Start
    \/ ExecuteAssign
    \/ ClearWorkspace
    \/ SaveMat
    \/ LoadMat
    \/ StopSession
SpecMat == Init /\ [][NextMat]_vars

NextShared ==
    \/ ExternalShare
    \/ ConnectToSession
    \/ SetVariable
    \/ GetVariable
    \/ ClientSet
    \/ ClientGet

SpecShared == Init /\ [][NextShared]_vars

\* The two programs of the repository, each run from its start to its end.
NextMain ==
    \/ CliMain
    \/ MainStart
    \/ UserShares
    \/ Receive
    \/ RunTask
    \/ LoopEnds
    \/ MainFinally
\* The finally clause is the next statement of a sequential program: it runs.
SpecMain == Init /\ [][NextMain]_vars /\ WF_vars(MainFinally)

\* ================================================================== claims
InLog(what) == \E i \in 1..Len(last.log) : last.log[i] = what
ShimCall(op) == last.layer = "shim" /\ last.op = op
ToolCall(name) == last.layer = "tool" /\ last.op = name
\* The call left the shim and the processes of the machine as it found them.
ShimUntouched ==
    /\ engine = last.pre.engine
    /\ is_shared = last.pre.is_shared
    /\ session_name = last.pre.session_name
    /\ procs = last.pre.procs
\* a code string that is None, empty or made of whitespace only
BlankCode(code) == code = NoneSeq \/ \A i \in 1..Len(code) : code[i] \in Whitespace

\* C1: execute with empty or whitespace-only code returns the result
\* {output: "", error: "No code provided"}, does not raise, makes no call on
\* the vendor API (no auto-start, no command) and leaves the handle as it was,
\* with or without a handle.
C1_BlankCodeRejected ==
    (ShimCall("execute") /\ BlankCode(last.args[1])) =>
        /\ last.exc = NoExc
        /\ last.ret = ExecRet("", "No code provided")
        /\ last.log = <<>>
        /\ ShimUntouched
\* whitespace-only code on a shim without a handle that could have started one
C1_Witness ==
    /\ ShimCall("execute") /\ BlankCode(last.args[1]) /\ Len(last.args[1]) > 1
    /\ MATLAB_AVAILABLE /\ engine = NoHandle
    /\ last.ret.error = "No code provided"

\* the format asked for, or derived from the extension, is not supported
UnsupportedFormatCall ==
    \/ ShimCall("save_figure") /\ last.args[2] \notin FigureFormats
    \/ /\ ShimCall("import_data") \/ ShimCall("export_data")
       /\ FormatOf(last.args[1], last.args[2]) \notin DataFormats
\* C2: save_figure, import_data and export_data with an unsupported format
\* return success=false, do not raise and do not touch the engine (no handle
\* is created, no command is submitted), in every session state.
C2_UnsupportedFormatNoEngine ==
    UnsupportedFormatCall =>
        /\ last.exc = NoExc
        /\ "success" \in last.ret.keys /\ ~last.ret.success
        /\ last.log = <<>>
        /\ ShimUntouched

\* C3: a connect_to_session that fails (the session does not exist, the
\* connection raises, the vendor library is absent) returns success=false
\* with an error message, does not raise, and leaves the handle, is_shared,
\* the session name and every engine process as they were.
C3_FailedConnectKeepsSession ==
    ShimCall("connect_to_session") =>
        /\ last.exc = NoExc
        /\ (~last.pre.avail \/ SharedAs(last.pre, last.args[1]) = {})
              => ~last.ret.success
        /\ ~last.ret.success =>
              /\ "error" \in last.ret.keys /\ last.ret.error # ""
              /\ ShimUntouched
              /\ ~InLog("quit")
\* the connection to an existing session raised while a live handle was held
C3_Witness ==
    /\ ShimCall("connect_to_session") /\ ~last.ret.success
    /\ SharedAs(last.pre, last.args[1]) # {}
    /\ engine # NoHandle /\ engine.started /\ Alive(Shim, engine)

\* C4: a successful connect_to_session quits the previous handle only if this
\* shim started it and its session is not shared.
C4_SwapQuitsOnlyExclusive ==
    (ShimCall("connect_to_session") /\ last.ret.success /\ InLog("quit")) =>
        /\ last.pre.engine.started
        /\ last.pre.procs[last.pre.engine.proc].name = NONE

\* C5: every engine process the shim started is its current handle or has
\* been terminated (a process whose quit() raised is left aside).
C5_NoLeakedEngine ==
    \A p \in Procs :
        (procs[p].status = "alive" /\ procs[p].own /\ ~procs[p].quit_failed)
            => engine.proc = p

\* C6: stop() always leaves the shim without a handle; without a handle it
\* does nothing and does not raise; with one it quits it, and a quit that
\* raises surfaces as MatlabEngineError.
C6_StopAlwaysClears ==
    ShimCall("stop") =>
        /\ engine = NoHandle
        /\ last.pre.engine = NoHandle =>
              last.exc = NoExc /\ last.log = <<>> /\ procs = last.pre.procs
        /\ last.pre.engine # NoHandle =>
              \/ /\ last.log = <<"quit">> /\ last.exc = NoExc
                 /\ last.pre.engine.started => ~Alive(last.pre, last.pre.engine)
                                               \/ procs[last.pre.engine.proc].status = "dead"
              \/ last.log = <<"quit", "raised">> /\ last.exc.type = "MatlabEngineError"
\* a quit that raised: the handle is gone and the process still runs
C6_Witness ==
    /\ ShimCall("stop") /\ last.exc.type = "MatlabEngineError"
    /\ engine = NoHandle
    /\ procs[last.pre.engine.proc].status = "alive"

AutoStartingOps ==
    {"execute", "get_variable", "set_variable", "call_function", "list_workspace",
     "clear_workspace", "workspace", "save_figure", "close_figures", "load_mat_file",
     "save_mat_file", "import_data", "export_data", "get_version", "list_toolboxes",
     "check_toolbox", "get_help"}
\* C7: a workspace or execution operation on a shim without a handle starts
\* the engine first; no call reaches the engine without a handle, and the
\* handle is present when the operation returns.
C7_AutoStartOnDemand ==
    (last.layer = "shim" /\ last.op \in AutoStartingOps
        /\ ~(last.op = "execute" /\ BlankCode(last.args[1]))) =>
        /\ last.pre.engine = NoHandle => last.log # <<>> /\ last.log[1] = "start"
        /\ \A i \in 1..Len(last.log) :
              last.log[i] \notin {"start", "start_matlab"} =>
                  \/ last.pre.engine # NoHandle
                  \/ i > 2 /\ last.log[2] = "start_matlab" /\ engine # NoHandle
        /\ last.exc = NoExc => engine # NoHandle
\* a data operation brought a stopped shim back to Started
C7_Witness ==
    /\ ShimCall("save_mat_file") /\ last.exc = NoExc
    /\ last.pre.engine = NoHandle /\ engine # NoHandle
    /\ \E p \in Procs : last.pre.procs[p].status = "dead"
    /\ InLog("eval")

\* the tool call lacks an argument the operation requires
MissingArgument ==
    LET a == last.args
    IN \/ ToolCall("execute_matlab") /\ Falsy(GetSeq(a.code))
       \/ /\ last.layer = "tool"
          /\ last.op \in {"workspace", "figure", "data_io", "env", "session"}
          /\ FalsyStr(Get(a.op))
       \/ ToolCall("data_io") /\ Falsy(GetSeq(a.path))
       \/ ToolCall("workspace") /\ a.op \in {"get", "set"} /\ FalsyStr(Get(a.var))
       \/ ToolCall("workspace") /\ a.op = "set" /\ FalsyStr(Get(a.value))
       \/ ToolCall("data_io") /\ a.op = "export" /\ FalsyStr(Get(a.var))
       \/ ToolCall("env") /\ a.op = "check_toolbox" /\ FalsyStr(Get(a.name))
       \/ ToolCall("get_help") /\ FalsyStr(Get(a.name))
       \/ ToolCall("session") /\ a.op = "connect" /\ FalsyStr(Get(a.session_name))
       \/ ToolCall("select_mode") /\ FalsyStr(Get(a.mode))
       \/ ToolCall("route_intent") /\ FalsyStr(Get(a.query))
\* C8: a tool call with a required argument missing or empty returns a
\* payload without calling the shim: no exception, no shim method, no vendor
\* call, the shim and the enabled modes unchanged.
C8_ValidationBeforeShim ==
    MissingArgument =>
        /\ last.exc = NoExc /\ last.payload.kind # NONE
        /\ last.calls = <<>> /\ last.log = <<>>
        /\ ShimUntouched
        /\ enabled_modes = last.pre_modes

\* C9: a get_help tool call with an op other than help, lookfor, which
\* returns a payload, does not raise and does not touch the engine.
C9_UnknownHelpOp ==
    (ToolCall("get_help") /\ ~FalsyStr(Get(last.args.name))
        /\ GetOr(last.args.op, "help") \notin {"help", "lookfor", "which"}) =>
        /\ last.exc = NoExc /\ last.payload.kind # NONE
        /\ last.log = <<>>
        /\ ShimUntouched

\* C10: every tool call returns a payload; no exception propagates out of
\* the handler.
C10_ToolCallNeverRaises ==
    last.layer = "tool" => last.exc = NoExc /\ last.payload.kind # NONE

\* the shim method called by the handler returned a result that reports a
\* failure: a non-empty error, or success=false
ShimReportedFailure ==
    /\ last.layer = "tool" /\ Len(last.calls) = 1 /\ last.exc = NoExc
    /\ last.op \in {"execute_matlab", "figure", "data_io", "env", "get_help", "session"}
    /\ \/ Truthy(last.ret.error)
       \/ "success" \in last.ret.keys /\ ~last.ret.success
\* the texts that the handlers put before a forwarded message
ErrorPrefixes ==
    {"Error executing MATLAB code:\n\n", "Error saving figure: ",
     "Error closing figures: ", "Error importing data: ", "Error exporting data: ",
     "Error loading MAT file: ", "Error saving MAT file: ", "Error getting version: ",
     "Error listing toolboxes: ", "Error checking toolbox: ", "Error getting help: "}
\* the payload is the JSON of the result, or a text that ends with its error
ForwardsError ==
    \/ last.payload.kind = "json" /\ last.payload.json = last.ret
    \/ /\ last.payload.kind = "text"
       /\ \E p \in ErrorPrefixes : last.payload.text = p \o PyStr(last.ret.error)
\* C11: when the shim method that a tool call invoked returns a result that
\* reports a failure, the payload of the tool call carries that failure
\* message verbatim.
C11_FailureForwarded == ShimReportedFailure => ForwardsError

\* the last call is an execute whose command ended as outcome o
EvalEnded(o) ==
    /\ ShimCall("execute") /\ Len(last.log) >= 2
    /\ last.log[Len(last.log) - 1] = "eval" /\ last.log[Len(last.log)] = o
\* The handle is the one the command was submitted on: the one the call
\* found, or the one its auto-start created; the flags are as they were.
HandleKept ==
    /\ engine = IF last.pre.engine # NoHandle THEN last.pre.engine
                ELSE StartMatlabHandle(last.pre)
    /\ is_shared = last.pre.is_shared /\ session_name = last.pre.session_name
\* the execution errors the engine reports for the submitted code
ExecutionErrors == {"exec_error", "exec_error_engine"}
\* C12: when eval raises, execute returns {output: "", error: message} for an
\* execution error reported by the engine, whatever the wording of the
\* message; it raises MatlabEngineError for another fault whose message has
\* "connection" or "engine" in it; it returns an "Unexpected error" result for
\* any other exception.  The handle is unchanged in the three cases.
C12_CommandFaultReturned ==
    \A o \in EvalRaising :
        EvalEnded(o) =>
            /\ o \in ExecutionErrors =>
                  last.exc = NoExc /\ last.ret = ExecRet("", EvalMsg(o))
            /\ (o \notin ExecutionErrors /\ HasEngineWording(EvalMsg(o))) =>
                  last.exc = Exc("MatlabEngineError", "Engine error: " \o EvalMsg(o))
            /\ (o \notin ExecutionErrors /\ ~HasEngineWording(EvalMsg(o))) =>
                  /\ last.exc = NoExc
                  /\ last.ret = ExecRet("", "Unexpected error: " \o EvalMsg(o))
            /\ HandleKept
\* an execution error whose message has "engine" in it came back as a result
C12_Witness ==
    /\ EvalEnded("exec_error_engine") /\ last.exc = NoExc
    /\ last.ret.error = "Error using matlab.engine.shareEngine"
    /\ HasEngineWording(last.ret.error)

\* C13: when eval returns, the output is the captured standard output when
\* that is not empty; it is the sentinel "Code executed successfully." exactly
\* when the captured output is empty and the captured error stream is empty;
\* the error is the captured error text, or None when that is empty.
C13_SentinelOnlyWithoutError ==
    \A o \in EvalReturning :
        EvalEnded(o) =>
            /\ last.exc = NoExc
            /\ EvalStdout(o) # "" => last.ret.output = EvalStdout(o)
            /\ last.ret.output = "Code executed successfully."
                  <=> (EvalStdout(o) = "" /\ EvalStderr(o) = "")
            /\ last.ret.error = IF EvalStderr(o) # "" THEN EvalStderr(o) ELSE NONE

\* C14: start() on a shim that has a handle starts no process, leaves the
\* handle, is_shared, the session name and the processes as they were and does
\* not raise.
C14_StartIdempotent ==
    (ShimCall("start") /\ last.pre.engine # NoHandle) =>
        /\ last.exc = NoExc
        /\ last.log = <<"start">>
        /\ ShimUntouched
\* start() on a shim connected to a shared session, with a free process slot
C14_Witness ==
    /\ ShimCall("start") /\ last.pre.engine # NoHandle /\ last.exc = NoExc
    /\ is_shared /\ session_name = "gui" /\ ~engine.started
    /\ FreeProcs(last.pre) # {}

\* C15: start() on a shim without a handle raises MatlabNotAvailableError when
\* the vendor library is absent, before any call of start_matlab, and
\* MatlabConnectionError when start_matlab fails; in both cases the shim still
\* has no handle, and a start() that follows calls start_matlab again.
C15_StartFailures ==
    /\ [](ShimCall("start") /\ last.pre.engine = NoHandle =>
            /\ ~last.pre.avail =>
                  last.exc.type = "MatlabNotAvailableError" /\ last.log = <<"start">>
            /\ last.pre.avail =>
                  /\ last.log = <<"start", "start_matlab">>
                  /\ \/ last.exc = NoExc /\ engine # NoHandle
                     \/ last.exc.type = "MatlabConnectionError"
            /\ Raised(last) => engine = NoHandle /\ ShimUntouched)
    /\ [][(ShimCall("start") /\ last.exc.type = "MatlabConnectionError"
              /\ last'.layer = "shim" /\ last'.op = "start")
            => last'.log = <<"start", "start_matlab">>]_vars
\* a start() that failed at start_matlab, after one that had failed already
C15_Witness ==
    /\ ShimCall("start") /\ last.exc.type = "MatlabConnectionError"
    /\ last.pre.engine = NoHandle /\ engine = NoHandle
    /\ \E p \in Procs : procs[p].status = "dead"

\* C17: get_current_session() does not raise and leaves the handle, is_shared
\* and the session name as they were; without a handle it reports success and
\* connected=false and makes no call on the vendor API (no handle is
\* created); with a handle it reports connected=true, is_shared and a
\* session name.
C17_CurrentSessionReadOnly ==
    ShimCall("get_current_session") =>
        /\ last.exc = NoExc /\ last.ret.success
        /\ engine = last.pre.engine
        /\ is_shared = last.pre.is_shared
        /\ session_name = last.pre.session_name
        /\ last.pre.engine = NoHandle =>
              /\ "connected" \in last.ret.keys /\ ~last.ret.connected
              /\ last.log = <<>> /\ procs = last.pre.procs
        /\ last.pre.engine # NoHandle =>
              /\ last.ret.connected
              /\ {"is_shared", "session_name"} \subseteq last.ret.keys
              /\ last.ret.is_shared = last.pre.is_shared
              /\ last.ret.session_name \notin {"", NONE}
\* the query on a shim that was stopped and could start an engine
C17_Witness ==
    /\ ShimCall("get_current_session") /\ ~last.ret.connected
    /\ MATLAB_AVAILABLE /\ engine = NoHandle
    /\ \E p \in Procs : procs[p].status = "dead"

\* C18: a connect_to_session(name) that succeeds returns success=true and
\* session_name = name and leaves the shim with a handle to the session
\* shared under that name; a get_current_session() that follows reports
\* connected=true and is_shared=true.
C18_ConnectedSessionReported ==
    /\ []((ShimCall("connect_to_session") /\ last.ret.success) =>
            /\ last.ret.session_name = last.args[1]
            /\ engine # NoHandle /\ ~engine.started
            /\ engine.proc \in SharedAs(last.pre, last.args[1])
            /\ session_name = last.args[1])
    /\ [][(ShimCall("connect_to_session") /\ last.ret.success
              /\ last'.layer = "shim" /\ last'.op = "get_current_session")
            => last'.ret.connected /\ last'.ret.is_shared]_vars
\* get_current_session() on the session "gui" the shim connected to
C18_Witness ==
    /\ ShimCall("get_current_session") /\ last.ret.connected /\ last.ret.is_shared
    /\ last.ret.session_name = "gui" /\ session_name = "gui"
    /\ Alive(Shim, engine)

\* C16: reading a resource leaves the workspace of every live session as it
\* was (the same variables with the same values), and a handle the shim holds
\* is neither replaced nor ended.
C16_ResourceReadOnly ==
    last.layer = "resource" =>
        /\ last.pre.engine # NoHandle =>
              /\ engine = last.pre.engine
              /\ procs[engine.proc].status = last.pre.procs[engine.proc].status
        /\ \A p \in Procs :
              last.pre.procs[p].status = "alive" => procs[p].ws = last.pre.procs[p].ws

\* the values the round trip is stated for: scalars, lists and nested lists
RoundTripValues == {"1", "2.5", "[1, 2, 3]", "[[1, 2], [3]]"}
C20_ListingExact ==
    /\ (ShimCall("list_workspace") /\ ~last.args[1] /\ last.exc = NoExc) =>
          last.ret.variables = Defined(Ws(Shim))
    /\ (ShimCall("clear_workspace") /\ last.exc = NoExc) =>
          Defined(Ws(Shim)) =
              IF last.args[1] = NONE THEN {}
              ELSE Defined(last.pre.procs[engine.proc].ws) \ {last.args[1]}

\* C24: a stopped shim behaves as one that was never started:
\* get_current_session reports the same, and after a start() both report the
\* same is_shared and session name and a connect_to_session quits the same
\* handles and leaves the same processes running.
C24_StoppedIsFresh ==
    (ShimCall("stop") /\ MATLAB_AVAILABLE /\ FreeProcs(Shim) # {}) =>
        LET stopped == start(Shim, "ok").st
            fresh == start(FreshShim(Shim), "ok").st
        IN /\ get_current_session(Shim, DefaultEnv).ret
                 = get_current_session(FreshShim(Shim), DefaultEnv).ret
           /\ get_current_session(stopped, DefaultEnv).ret
                 = get_current_session(fresh, DefaultEnv).ret
           /\ \A name \in SessionNames :
                 LET a == connect_to_session(stopped, name, DefaultEnv)
                     b == connect_to_session(fresh, name, DefaultEnv)
                 IN a.log = b.log /\ a.st.procs = b.st.procs

\* C25: after a connect_to_session that succeeded, the session behind the
\* handle of the shim is running.
C25_ConnectedSessionRuns ==
    (ShimCall("connect_to_session") /\ last.ret.success) => Alive(Shim, engine)

\* C26: check_toolbox reports installed exactly when the output lacks
\* "not found", and does not report installed when the command failed with
\* an error and wrote no output.
C26_InstalledIffFound ==
    (ShimCall("check_toolbox") /\ last.exc = NoExc) =>
        /\ last.ret.installed <=> LacksNotFound(last.ret.output)
        /\ (Truthy(last.ret.error) /\ last.ret.output = "") => ~last.ret.installed

\* the last vendor call of the last operation was an eval that ended as o
LogEnds(o) ==
    /\ Len(last.log) >= 2
    /\ last.log[Len(last.log) - 1] = "eval" /\ last.log[Len(last.log)] = o
\* what execute() returns as output for a command that ended as o
OutputOf(o) ==
    IF o \notin EvalReturning THEN ""
    ELSE IF EvalStdout(o) # "" THEN EvalStdout(o) ELSE "Code executed successfully."
\* C30: no JSON-decode failure escapes: when the output of the command is not
\* JSON (the empty output of a failed command included), the detailed
\* list_workspace returns {error, raw} with the output as raw, and reading
\* matlab://env/toolboxes or matlab://session/info returns the output text.
C30_DecodeFailureContained ==
    /\ last.exc.type # "JSONDecodeError"
    /\ \A o \in EvalOutcomes :
          (LogEnds(o) /\ ~IsJson(OutputOf(o)) /\ last.exc = NoExc) =>
              /\ (ShimCall("list_workspace") /\ last.args[1]) =>
                    /\ last.ret.keys = {"error", "raw"}
                    /\ last.ret.error = "Failed to parse workspace info"
                    /\ last.ret.raw = OutputOf(o)
              /\ (last.layer = "resource"
                    /\ last.args[1] \in {"matlab://env/toolboxes", "matlab://session/info"}) =>
                    last.payload = Text(OutputOf(o))
\* the detailed listing whose command failed and wrote nothing
C30_Witness ==
    /\ ShimCall("list_workspace") /\ last.args[1] /\ LogEnds("exec_error")
    /\ last.ret.error = "Failed to parse workspace info" /\ last.ret.raw = ""

\* the last operation is a select_mode tool call with a non-empty mode
SelectedMode == ToolCall("select_mode") /\ ~FalsyStr(Get(last.args.mode))
OnGui == engine # NoHandle /\ engine.proc \in SharedAs(Shim, "gui")
\* the last operation, by the shim or by the other client, was on that session
LastOnGui == last.layer = "client" \/ (last.layer = "shim" /\ OnGui)
\* C22: on a session two clients are connected to, every set_variable is
\* accepted and overwrites the value, whoever wrote it before; a get_variable
\* through either connection returns the value of the write that reached the
\* engine last.
C22_LastWriteWins ==
    /\ []((LastOnGui /\ last.op = "set_variable" /\ last.exc = NoExc) =>
            \A p \in SharedAs(Shim, "gui") :
                procs[p].ws[last.args[1]] = ToMatlab(last.args[2]))
    /\ [][(/\ LastOnGui /\ last.op = "set_variable" /\ last.exc = NoExc
           /\ last.args[2] \in RoundTripValues
           /\ LastOnGui' /\ last'.op = "get_variable" /\ last'.exc = NoExc
           /\ last'.args[1] = last.args[1])
            => last'.ret.value = last.args[2]]_vars
\* the shim overwrote, on the session it is connected to, a value written
\* there before
C22_Witness ==
    /\ ShimCall("set_variable") /\ last.exc = NoExc /\ OnGui /\ is_shared
    /\ last.args[2] = "[[1, 2], [3]]"
    /\ last.pre.procs[engine.proc].ws["x"] = "double(2.5)"

\* The names a save with the list `variables` writes from the workspace ws.
SavedNames(ws, variables) ==
    IF Falsy(variables) THEN Defined(ws) ELSE {variables[i] : i \in 1..Len(variables)}
\* the shim holds a running engine whose workspace has every name of the list
CanSave(variables) ==
    /\ engine # NoHandle
    /\ Alive(Shim, engine)
    /\ SavedNames(Ws(Shim), variables) \subseteq Defined(Ws(Shim))

\* C21: save_mat_file(path, variables), then clear_workspace(), then
\* load_mat_file(path) restores the saved variables: after the three calls the
\* workspace holds every variable that was saved, with the value it had, and
\* holds no other variable, so that with an explicit list nothing outside the
\* list comes back.  The same is said of the calls the program made: a save
\* that succeeded left in the file exactly the variables it was asked for, and
\* a load that succeeded on an empty workspace left there exactly the
\* variables of the file.
C21_SaveClearLoadRestores ==
    /\ \A variables \in VarLists :
          CanSave(variables) =>
              LET s == save_mat_file(Shim, MatPath, variables, DefaultEnv)
                  c == clear_workspace(s.st, NONE, DefaultEnv)
                  l == load_mat_file(c.st, MatPath, NONE, DefaultEnv)
                  saved == SavedNames(Ws(Shim), variables)
              IN /\ s.ret.success /\ l.ret.success
                 /\ Defined(Ws(c.st)) = {}
                 /\ Defined(Ws(l.st)) = saved
                 /\ \A n \in saved : Ws(l.st)[n] = Ws(Shim)[n]
    /\ (ShimCall("save_mat_file") /\ last.exc = NoExc /\ last.ret.success) =>
          /\ mat_file.exists
          /\ Defined(mat_file.vars) = SavedNames(Ws(Shim), last.args[2])
          /\ \A n \in Defined(mat_file.vars) : mat_file.vars[n] = Ws(Shim)[n]
    /\ (ShimCall("load_mat_file") /\ last.exc = NoExc /\ last.ret.success
            /\ last.args[2] = NONE
            /\ (last.pre.engine = NoHandle \/ Defined(Ws(last.pre)) = {})) =>
          Ws(Shim) = mat_file.vars
\* a load brought back, into a workspace that had been cleared, the two
\* variables a save with an explicit list had written out of three
C21_Witness ==
    /\ ShimCall("load_mat_file") /\ last.exc = NoExc /\ last.ret.success
    /\ last.pre.engine # NoHandle
    /\ Defined(Ws(last.pre)) = {}
    /\ Defined(mat_file.vars) = {"x", "y"}
    /\ Defined(Ws(Shim)) = {"x", "y"}

\* What a run of the command line was given and did.
CliRan == last.layer = "cli"
ModeSelected == ~Falsy(last.args.command) \/ last.args.file # NONE \/ last.args.interactive
\* the code the -c or -f mode handed to the engine, NoneSeq when there is none
CodeGiven ==
    IF ~Falsy(last.args.command) THEN last.args.command
    ELSE IF last.args.file # NONE /\ Exists(last.args.file) /\ Readable(last.args.file)
    THEN ReadText(last.args.file)
    ELSE NoneSeq
\* the ends of a command after which its result carries an error, or it raises
ErrorEnds == {"stderr", "out_stderr"} \cup EvalRaising
RanWithNoError ==
    /\ ModeSelected
    /\ InLog("quit") /\ ~InLog("raised")
    /\ \A i \in 1..Len(last.log) : last.log[i] \notin ErrorEnds
    /\ (~Falsy(last.args.command) \/ last.args.file # NONE) => ~IsBlank(CodeGiven)

\* C23: the command line returns 0 exactly when the selected mode ran with no
\* error, and 1 otherwise: when no mode is selected, when the engine does not
\* start, when a command or the script yields a result with an error, when the
\* script is missing or unreadable, when stopping the engine fails.
C23_ExitCodeTellsErrors ==
    CliRan => /\ last.ret.count \in {0, 1}
              /\ last.ret.count = 0 <=> RanWithNoError

\* the server's main ended
MainEnded == main_pc \in {"returned", "raised"}
\* every process that runs and did not run before the program began had its
\* quit() called
NewProcsQuit(before) == \A p \in Running(procs) \ Running(before) : procs[p].quit_failed

\* C27: both programs stop the engine before they end.  The server's main ends
\* with a call of stop() and with no handle in the shim, and once it left the
\* serving loop, or its start() failed, it does end; the command line program
\* ends with no handle in the shim, and a process it started was quit.
C27_EngineStoppedAtExit ==
    /\ [](MainEnded => (ShimCall("stop") /\ engine = NoHandle
                        /\ (last.pre.engine # NoHandle => InLog("quit"))))
    /\ [](CliRan => (engine = NoHandle /\ NewProcsQuit(last.pre.procs)
                     /\ (InLog("eval") => InLog("quit"))))
    /\ (main_pc \in {"finally", "finally_exc"} ~> MainEnded)
\* the serving loop ended with an exception and the engine it had was quit
C27_Witness ==
    /\ main_pc = "raised"
    /\ ShimCall("stop") /\ last.exc = NoExc
    /\ last.pre.engine # NoHandle
    /\ InLog("quit")

\* C28: the server runs a handler from its first statement to its return
\* without giving the control back: no request is ever suspended inside its
\* handler, and the step that takes a request up answers it, with what the
\* handler does on the shim as that step found it, and touches no other
\* request.  No connect to a session can then fall between two steps of
\* another request.
C28_HandlersRunWhole ==
    /\ [](\A t \in Tasks : requests[t].state # "suspended")
    /\ [][\A t \in Tasks :
            (main_pc' = "serving" /\ requests[t].state = "pending"
                 /\ requests'[t] # requests[t]) =>
                /\ requests'[t] = NoRequest
                /\ last'.layer = requests[t].kind
                /\ last'.op = requests[t].name
                /\ last'.args = requests[t].args
                /\ last'.pre = Shim
                /\ \A u \in Tasks \ {t} : requests'[u] = requests[u]]_vars
\* a connect swapped the handle of the shim while another request waited
C28_Witness ==
    /\ ToolCall("session") /\ last.ret.success
    /\ engine # last.pre.engine
    /\ \E t \in Tasks : requests[t].state = "pending" /\ requests[t].name = "workspace"

====
